---- MODULE Spec2Model ----
(***************************************************************************)
(* Verification model of the tower-defense simulation core:                *)
(*   - World (entity store with deferred add / commit),                    *)
(*   - SpawnSystem (ordinary wave spawning),                               *)
(*   - BossSystem (encounter scheduler: warning -> spawning -> active),    *)
(*   - MovementSystem / CollisionSystem / CombatSystem,                    *)
(*   - the per-frame pipeline of Game.update.                              *)
(*                                                                         *)
(* Three specifications share the variables:                               *)
(*   Spec        the frame pipeline with both schedulers (entity level),   *)
(*   SpecCombat  one frame's collision pairs resolved pair by pair         *)
(*               (hp, projectiles, hit counts, damage log),                *)
(*   SpecCCD     the swept projectile/enemy test as a pure function.       *)
(*                                                                         *)
(* Time is in whole seconds; BossWarning.timeRemaining is kept in tenths   *)
(* of a second so that the 0.1 s of requestSpawnBoss is exact.             *)
(***************************************************************************)
EXTENDS Integers, Sequences, FiniteSets, TLC

VARIABLES
  \* ---- content registry (read-only data of a run)
  registry,
  \* ---- Game / Clock
  pc,                \* position inside Game.update ("frame" = between frames)
  now,               \* Clock.elapsedTime (s)
  dt,                \* Clock.deltaTime of the current frame (s)
  \* ---- World
  entities,          \* World.entities (ids of the committed entities)
  entitiesToAdd,     \* World.entitiesToAdd (ids, in insertion order)
  nextId,            \* World.nextId
  kind,              \* id -> "enemy" | "boss"  (class / isBoss flag)
  alive,             \* id -> Entity.alive
  \* ---- SpawnSystem
  spawnTimer,        \* SpawnSystem.spawnTimer (s)
  currentWave,       \* SpawnSystem.currentWave (index into Waves, 0 = null)
  \* ---- BossSystem
  nextMiniBossWave,  \* BossSystem.nextMiniBossWave
  finalBossSpawned,  \* BossSystem.finalBossSpawned
  activeBoss,        \* BossSystem.activeBoss (entity id, NoBoss = null)
  currentWarning,    \* BossSystem.currentWarning (NoWarning = null)
  isSpawningBoss,    \* BossSystem.isSpawningBoss
  \* ---- observation (history) variables
  lastAction,        \* the operation that produced this state
  spawnAdded,        \* the last SpawnSystem.update added an ordinary enemy
  enc,               \* what happened to the current / last encounter enemy
  bossSpawned,       \* the bossSpawned notifications so far: how many of
                     \* type mini, and the last one (type, key, enemy stats)
  \* ---- combat (SpecCombat)
  enemy,             \* id -> [hp, maxHp, x] of the Enemy entities
  projectile,        \* id -> fields of the Projectile entities
  towerHp,           \* Tower.stats.hp
  invincibleTower,   \* CombatSystem.invincibleTower
  collisionPairs,    \* CollisionSystem.collisionPairs of the current frame
  pairIndex,         \* position of processCollisions in collisionPairs
  damageEvents,      \* CombatSystem.damageEvents
  emitted,           \* notifications emitted on the bus so far (counts)
  \* ---- swept collision test (SpecCCD)
  ccd,               \* one projectile, one enemy and the last test's result
  \* ---- World as a container of entity objects (SpecWorld)
  entitiesToRemove,  \* World.entitiesToRemove (in insertion order)
  entityId,          \* entity object -> Entity.id (0 until World.add)
  \* ---- EventBus
  listeners,         \* EventBus.listeners: key -> handlers, in subscription order
  invoked,           \* the handler calls made by emit, in order: <<key, handler>>
  dispatch,          \* the emit in progress or last finished (SpecBus)
  handlerBody,       \* handler -> what its code does when called (SpecBus)
  \* ---- UpgradeSystem
  levels             \* UpgradeSystem.levels: upgrade key -> level

schedVars == <<registry, pc, now, dt, entities, entitiesToAdd, nextId, kind, alive,
               spawnTimer, currentWave, nextMiniBossWave, finalBossSpawned,
               activeBoss, currentWarning, isSpawningBoss,
               lastAction, spawnAdded, enc, bossSpawned>>

combatVars == <<enemy, projectile, towerHp, invincibleTower, collisionPairs,
                pairIndex, damageEvents, emitted>>

ccdVars == <<ccd>>

worldVars == <<entitiesToRemove, entityId>>

busVars == <<listeners, invoked, dispatch, handlerBody>>

upgradeVars == <<levels>>

vars == <<schedVars, combatVars, ccdVars, worldVars, busVars, upgradeVars>>

(***************************************************************************)
(* Bounds of the model                                                     *)
(***************************************************************************)
MaxTime == 65         \* frames are generated while now < MaxTime
MaxOrdinary == 1      \* ordinary enemies that survive a frame's combat

\* elapsed times (end of the last frame) at which requestSpawnBoss may be
\* called, once each: during the first warning, and after the first spawn
RequestTimes == {12, 22}
\* keys passed to requestSpawnBoss: a blueprint of registry.bosses and a
\* key without blueprint
RequestKeys == {"shadowStalker", "noSuchBoss"}

(***************************************************************************)
(* Content registry (data).  The registry of Spec: one wave band, periodic *)
(* encounters every 20 s with a 10 s warning, the final encounter at 45 s. *)
(***************************************************************************)
\* Blueprints of registry.bosses (hp, maxHp, damage, speed); statModifiers
\* are kept in percent (1.0 = 100) and the speed of a created enemy in
\* hundredths, so that the scaling is exact
BossBlueprints ==
  [k \in {"shadowStalker", "ancientTitan"} |->
     IF k = "shadowStalker"
     THEN [hp |-> 50, maxHp |-> 50, damage |-> 3, speed |-> 40]
     ELSE [hp |-> 500, maxHp |-> 500, damage |-> 10, speed |-> 20]]

SchedulerRegistry ==
  [waves |-> << [timeStart |-> 0, timeEnd |-> 40, spawnInterval |-> 2,
                 enemies |-> <<"basic">>] >>,
   enemies |-> {"basic"},
   bosses |-> {"shadowStalker", "ancientTitan"},
   blueprints |-> BossBlueprints,
   miniBosses |-> [enabled |-> TRUE, interval |-> 20, warningTime |-> 10,
                   statModifiers |-> [hp |-> 100, damage |-> 50, speed |-> 10],
                   pool |-> <<"shadowStalker">>],
   finalBoss |-> [spawnTime |-> 45, warningTime |-> 10,
                  key |-> "ancientTitan"]]

\* seconds -> tenths of a second
Tenths(s) == 10 * s

NoBoss == 0
NoWarning == [type |-> "none", timeRemaining |-> 0, bossKey |-> "none"]

NoneSpawned == [minis |-> 0, type |-> "none", key |-> "none", stats |-> <<>>]

NoEncounter ==
  [boss |-> NoBoss, groundEvt |-> FALSE,
   boundary |-> FALSE, killed |-> FALSE, defeatedEvt |-> FALSE]

NoneEmitted ==
  [EnemyKilled |-> <<>>, TowerDamaged |-> 0, TowerDamagedAmount |-> 0,
   TowerDestroyed |-> 0]

NoCcd == [phase |-> "none"]

(***************************************************************************)
(* World                                                                   *)
(***************************************************************************)
\* World.has that also asks for a live entity
WorldHasAlive(id) == id \in entities /\ alive[id]

\* World.has(entity)
WorldHas(id) == id \in entities

\* Entities of the store that are ordinary enemies
Ordinary == {i \in entities : kind[i] = "enemy"}

SeqToSet(s) == {s[i] : i \in 1..Len(s)}

\* the function f extended / overridden at x
Put(f, x, v) == [i \in (DOMAIN f) \cup {x} |-> IF i = x THEN v ELSE f[i]]

\* f restricted to S
Restrict(f, S) == [i \in S |-> f[i]]

(***************************************************************************)
(* BossSystem                                                              *)
(***************************************************************************)
\* BossSystem.isPreventingNormalSpawns
IsPreventingNormalSpawns ==
  isSpawningBoss \/
  (currentWarning # NoWarning /\ currentWarning.timeRemaining <= Tenths(5))

\* The scheduler is in Warning, Spawning or Active
EncounterInProgress == currentWarning # NoWarning \/ isSpawningBoss

\* findCurrentWave that keeps a band at its timeEnd
FindCurrentWaveClosed(t) ==
  LET hits == {i \in 1..Len(registry.waves) :
                 t >= registry.waves[i].timeStart /\ t <= registry.waves[i].timeEnd}
  IN IF hits = {} THEN 0
     ELSE CHOOSE i \in hits : \A j \in hits : i <= j

\* SpawnSystem.findCurrentWave: index of the first band containing t, else 0
FindCurrentWave(t) ==
  LET hits == {i \in 1..Len(registry.waves) :
                 t >= registry.waves[i].timeStart /\ t < registry.waves[i].timeEnd}
  IN IF hits = {} THEN 0
     ELSE CHOOSE i \in hits : \A j \in hits : i <= j

\* BossSystem.handleMiniBossSpawning: the warning after the periodic trigger
\* was evaluated at time t with warning w pending (key: the pool's draw)
HandleMiniBossSpawning(t, w, key) ==
  LET nextMiniBossTime == nextMiniBossWave * registry.miniBosses.interval
  IN IF t >= nextMiniBossTime - registry.miniBosses.warningTime /\ t < nextMiniBossTime
        /\ w = NoWarning
     THEN [type |-> "mini", timeRemaining |-> Tenths(registry.miniBosses.warningTime),
           bossKey |-> key]
     ELSE w

\* BossSystem.handleFinalBossSpawning
HandleFinalBossSpawning(t, w) ==
  IF t >= registry.finalBoss.spawnTime - registry.finalBoss.warningTime
     /\ t < registry.finalBoss.spawnTime
     /\ w = NoWarning
  THEN [type |-> "final", timeRemaining |-> Tenths(registry.finalBoss.warningTime),
        bossKey |-> registry.finalBoss.key]
  ELSE w

\* requestSpawnBoss without its "already spawning or active" guard
RequestSpawnBossUnguarded(key, type) ==
  [type |-> type, timeRemaining |-> 1, bossKey |-> key]

\* BossSystem.requestSpawnBoss: the warning after the call
RequestSpawnBossWarning(key, type) ==
  IF isSpawningBoss
  THEN currentWarning
  ELSE [type |-> type, timeRemaining |-> 1, bossKey |-> key]

\* BossSystem.selectRandomMiniBoss: the keys a draw from the pool can give
SelectRandomMiniBoss ==
  IF Len(registry.miniBosses.pool) = 0 THEN {"shadowStalker"}
  ELSE SeqToSet(registry.miniBosses.pool)

(***************************************************************************)
(* Game.update: the order of the systems inside one frame                  *)
(***************************************************************************)
GamePhases == <<"spawn", "move", "collide", "commit">>
\* BossSystem.update runs after combat and before the commit
BossPhaseBefore == "commit"

Pipeline ==
  LET k == CHOOSE i \in 1..Len(GamePhases) : GamePhases[i] = BossPhaseBefore
  IN SubSeq(GamePhases, 1, k - 1) \o <<"boss">> \o
     SubSeq(GamePhases, k, Len(GamePhases))

PhaseAfter(p) ==
  LET k == CHOOSE i \in 1..Len(Pipeline) : Pipeline[i] = p
  IN IF k = Len(Pipeline) THEN "frame" ELSE Pipeline[k + 1]

DtChoices == {1}

\* Game.gameLoop: clock.update(), then Game.update starts
ClockTick ==
  /\ pc = "frame"
  /\ UNCHANGED <<combatVars, ccdVars, worldVars, busVars, upgradeVars, bossSpawned>>
  /\ now < MaxTime
  /\ \E d \in DtChoices : dt' = d /\ now' = now + d
  /\ pc' = Pipeline[1]
  /\ spawnAdded' = FALSE
  /\ lastAction' = "clock"
  /\ UNCHANGED <<registry, entities, entitiesToAdd, nextId, kind, alive,
                 spawnTimer, currentWave, nextMiniBossWave, finalBossSpawned,
                 activeBoss, currentWarning, isSpawningBoss, enc>>

\* creators.enemy that builds an enemy for every key
EnemyBlueprintAssumed(key) == TRUE

\* creators.enemy(key, pos) finds a blueprint (it throws otherwise, and
\* spawnEnemyByKey catches the error)
EnemyBlueprintFound(key) == key \in registry.enemies \cup registry.bosses

\* The band has a weighted enemy table (wave.enemies is defined)
HasEnemyTable(wave) == "enemies" \in DOMAIN wave

\* SpawnSystem.update (with spawnEnemy / selectEnemyType / spawnEnemyByKey).
\* selectEnemyType on a band without table throws a TypeError
\* (wave.enemies.reduce), which nothing catches: Game.update is abandoned
\* and gameLoop does not request the next frame (pc = "crashed").
SpawnUpdate ==
  /\ pc = "spawn"
  /\ UNCHANGED <<combatVars, ccdVars, worldVars, busVars, upgradeVars, bossSpawned>>
  /\ pc' = IF /\ ~IsPreventingNormalSpawns
              /\ FindCurrentWave(now) # 0
              /\ spawnTimer - dt <= 0
              /\ ~HasEnemyTable(registry.waves[FindCurrentWave(now)])
           THEN "crashed" ELSE PhaseAfter("spawn")
  /\ lastAction' = "spawn"
  /\ IF IsPreventingNormalSpawns
     THEN /\ spawnAdded' = FALSE
          /\ UNCHANGED <<currentWave, spawnTimer, entitiesToAdd, nextId,
                         kind, alive>>
     ELSE LET w == FindCurrentWave(now)
          IN /\ currentWave' = w
             /\ IF w = 0
                THEN /\ spawnAdded' = FALSE
                     /\ UNCHANGED <<spawnTimer, entitiesToAdd, nextId, kind,
                                    alive>>
                ELSE IF spawnTimer - dt > 0
                THEN /\ spawnTimer' = spawnTimer - dt
                     /\ spawnAdded' = FALSE
                     /\ UNCHANGED <<entitiesToAdd, nextId, kind, alive>>
                ELSE IF ~HasEnemyTable(registry.waves[w])
                THEN /\ spawnTimer' = spawnTimer - dt
                     /\ spawnAdded' = FALSE
                     /\ UNCHANGED <<entitiesToAdd, nextId, kind, alive>>
                ELSE /\ spawnTimer' = registry.waves[w].spawnInterval
                     /\ IF Len(registry.waves[w].enemies) = 0
                        THEN /\ spawnAdded' = FALSE
                             /\ UNCHANGED <<entitiesToAdd, nextId, kind,
                                            alive>>
                        ELSE \E key \in SeqToSet(registry.waves[w].enemies) :
                               IF EnemyBlueprintFound(key)
                               THEN /\ entitiesToAdd' =
                                         Append(entitiesToAdd, nextId)
                                    /\ nextId' = nextId + 1
                                    /\ kind' = Put(kind, nextId,
                                         IF key \in registry.enemies
                                         THEN "enemy" ELSE "boss")
                                    /\ alive' = Put(alive, nextId, TRUE)
                                    /\ spawnAdded' = TRUE
                               ELSE /\ spawnAdded' = FALSE
                                    /\ UNCHANGED <<entitiesToAdd, nextId,
                                                   kind, alive>>
  /\ UNCHANGED <<registry, now, dt, entities, nextMiniBossWave, finalBossSpawned,
                 activeBoss, currentWarning, isSpawningBoss, enc>>

\* MovementSystem.update: the enemies of `reached` come within 40 px of the
\* center in this frame (positions are inputs of the model)
MovementUpdate ==
  /\ pc = "move"
  /\ UNCHANGED <<combatVars, ccdVars, worldVars, busVars, upgradeVars, bossSpawned>>
  /\ pc' = PhaseAfter("move")
  /\ lastAction' = "move"
  /\ \E reached \in SUBSET entities :
       /\ alive' = [i \in DOMAIN alive |->
                      IF i \in reached THEN FALSE ELSE alive[i]]
       /\ enc' = IF enc.boss \in reached /\ kind[enc.boss] = "boss"
                 THEN [enc EXCEPT !.groundEvt = TRUE, !.boundary = TRUE]
                 ELSE enc
  /\ UNCHANGED <<registry, now, dt, entities, entitiesToAdd, nextId, kind, spawnTimer,
                 currentWave, nextMiniBossWave, finalBossSpawned, activeBoss,
                 currentWarning, isSpawningBoss, spawnAdded>>

\* CollisionSystem.update + CombatSystem.processCollisions at entity level:
\* `killed` are the enemies whose hp a projectile pair brings to 0
\* (EnemyKilled is emitted for them), `ground` those of an enemy-ground or
\* enemy-tower pair.  Pairs are reported for every entity of the store,
\* dead or alive.
CombatResolve ==
  /\ pc = "collide"
  /\ UNCHANGED <<combatVars, ccdVars, worldVars, busVars, upgradeVars, bossSpawned>>
  /\ pc' = PhaseAfter("collide")
  /\ lastAction' = "collide"
  /\ \E killed \in SUBSET entities, ground \in SUBSET entities :
       /\ alive' = [i \in DOMAIN alive |->
                      IF i \in killed \cup ground THEN FALSE ELSE alive[i]]
       /\ Cardinality({i \in Ordinary : alive'[i]}) < MaxOrdinary
       /\ enc' = [enc EXCEPT
                    !.killed = @ \/ (enc.boss \in killed /\ alive[enc.boss]),
                    !.boundary = @ \/ (enc.boss \in ground /\ alive[enc.boss])]
  /\ UNCHANGED <<registry, now, dt, entities, entitiesToAdd, nextId, kind, spawnTimer,
                 currentWave, nextMiniBossWave, finalBossSpawned, activeBoss,
                 currentWarning, isSpawningBoss, spawnAdded>>

\* BossSystem.scaleMiniBossStats(blueprint, wave) with a step of wave - 2
\* instead of wave - 1
ScaleMiniBossStatsFromTwo(blueprint, wave) ==
  LET m == registry.miniBosses.statModifiers
  IN [hp |-> (blueprint.hp * (100 + (wave - 2) * m.hp)) \div 100,
      maxHp |-> (blueprint.hp * (100 + (wave - 2) * m.hp)) \div 100,
      damage |-> IF blueprint.damage # 0
                 THEN (blueprint.damage * (100 + (wave - 2) * m.damage)) \div 100
                 ELSE blueprint.damage,
      speed100 |-> blueprint.speed * (100 + (wave - 2) * m.speed)]

\* BossSystem.scaleMiniBossStats(blueprint, wave): the stats of the enemy
\* created from the scaled blueprint (Math.floor for hp and damage)
ScaleMiniBossStats(blueprint, wave) ==
  LET m == registry.miniBosses.statModifiers
  IN [hp |-> (blueprint.hp * (100 + (wave - 1) * m.hp)) \div 100,
      maxHp |-> (blueprint.hp * (100 + (wave - 1) * m.hp)) \div 100,
      damage |-> IF blueprint.damage # 0
                 THEN (blueprint.damage * (100 + (wave - 1) * m.damage)) \div 100
                 ELSE blueprint.damage,
      speed100 |-> blueprint.speed * (100 + (wave - 1) * m.speed)]

\* creators.enemyFromBlueprint on the blueprint as it is
UnscaledStats(blueprint) ==
  [hp |-> blueprint.hp, maxHp |-> blueprint.maxHp, damage |-> blueprint.damage,
   speed100 |-> blueprint.speed * 100]

\* EventBus.EventKey: the keys the Event Channel declares
EventKey ==
  {"EnemyKilled", "LevelUp", "CardChosen", "CardDraftActive", "CardDraftClosed",
   "NoAvailableUpgrades", "RunEnded", "BossSpawned", "BossDefeated",
   "BossReachedGround", "TowerDamaged", "TowerDestroyed", "CollisionsDetected",
   "StatModification", "EquipWeapon", "UpgradeApplied"}

\* The keys BossSystem passes to emit (each cast with `as any`)
BossDefeatedKey == "bossDefeated"
BossWarningStartKey == "bossWarningStart"
BossSpawningKey == "bossSpawning"
BossSpawnedKey == "bossSpawned"

\* EventBus.emit(key, payload) with handlers that return normally and leave
\* the subscriptions alone: listeners.get(key), then each handler in order.
\* No entry for the key: no call.
BusDeliver(lst, key) ==
  IF key \in DOMAIN lst
  THEN [k \in 1..Len(lst[key]) |-> <<key, lst[key][k]>>]
  ELSE <<>>

\* BossSystem.update (with handleMiniBossSpawning, handleFinalBossSpawning,
\* spawnBoss and completeBossSpawn)
BossUpdate ==
  /\ pc = "boss"
  /\ UNCHANGED <<combatVars, ccdVars, worldVars, listeners, dispatch,
                 handlerBody, upgradeVars>>
  /\ pc' = PhaseAfter("boss")
  /\ lastAction' = "boss"
  /\ \E key \in SelectRandomMiniBoss :
       LET \* the active boss left the store
           defeated == activeBoss # NoBoss /\ ~WorldHas(activeBoss)
           ab1 == IF defeated THEN NoBoss ELSE activeBoss
           sp1 == IF defeated THEN FALSE ELSE isSpawningBoss
           enc1 == IF defeated THEN [enc EXCEPT !.defeatedEvt = TRUE] ELSE enc
           w2 == IF registry.miniBosses.enabled /\ ~sp1
                 THEN HandleMiniBossSpawning(now, currentWarning, key)
                 ELSE currentWarning
           w3 == IF ~finalBossSpawned /\ ~sp1
                 THEN HandleFinalBossSpawning(now, w2)
                 ELSE w2
           \* the warning countdown
           w4 == IF w3 # NoWarning
                 THEN [w3 EXCEPT !.timeRemaining = @ - Tenths(dt)]
                 ELSE w3
           expired == w3 # NoWarning /\ w4.timeRemaining <= 0
           \* the handler calls of the emits made so far in this update
           calls == (IF defeated THEN BusDeliver(listeners, BossDefeatedKey)
                     ELSE <<>>)
                    \o (IF w3 # NoWarning /\ w3 # currentWarning
                        THEN BusDeliver(listeners, BossWarningStartKey)
                        ELSE <<>>)
       IN IF ~expired
          THEN /\ currentWarning' = w4
               /\ invoked' = invoked \o calls
               /\ activeBoss' = ab1
               /\ isSpawningBoss' = sp1
               /\ enc' = enc1
               /\ UNCHANGED <<entitiesToAdd, nextId, kind, alive,
                              nextMiniBossWave, finalBossSpawned, bossSpawned>>
          ELSE \* spawnBoss
               /\ isSpawningBoss' = TRUE
               /\ currentWarning' = NoWarning
               /\ IF w4.bossKey \notin registry.bosses
                  THEN \* blueprint not found
                       /\ invoked' = invoked \o calls
                                     \o BusDeliver(listeners, BossSpawningKey)
                       /\ activeBoss' = ab1
                       /\ enc' = enc1
                       /\ UNCHANGED <<entitiesToAdd, nextId, kind, alive,
                                      nextMiniBossWave, finalBossSpawned,
                                      bossSpawned>>
                  ELSE /\ invoked' = invoked \o calls
                                     \o BusDeliver(listeners, BossSpawningKey)
                                     \o BusDeliver(listeners, BossSpawnedKey)
                       /\ entitiesToAdd' = Append(entitiesToAdd, nextId)
                       /\ nextId' = nextId + 1
                       /\ kind' = Put(kind, nextId, "boss")
                       /\ alive' = Put(alive, nextId, TRUE)
                       /\ activeBoss' = nextId
                       /\ enc' = [NoEncounter EXCEPT !.boss = nextId]
                       /\ bossSpawned' =
                            [minis |-> bossSpawned.minis
                                         + (IF w4.type = "mini" THEN 1 ELSE 0),
                             type |-> w4.type, key |-> w4.bossKey,
                             stats |-> IF w4.type = "mini"
                                       THEN ScaleMiniBossStats(
                                              registry.blueprints[w4.bossKey],
                                              nextMiniBossWave)
                                       ELSE UnscaledStats(
                                              registry.blueprints[w4.bossKey])]
                       /\ IF w4.type = "mini"
                          THEN /\ nextMiniBossWave' = nextMiniBossWave + 1
                               /\ UNCHANGED finalBossSpawned
                          ELSE /\ finalBossSpawned' = TRUE
                               /\ UNCHANGED nextMiniBossWave
  /\ UNCHANGED <<registry, now, dt, entities, spawnTimer, currentWave, spawnAdded>>

\* World.update: commit the queued additions, drop the dead
WorldUpdate ==
  /\ pc = "commit"
  /\ UNCHANGED <<combatVars, ccdVars, worldVars, busVars, upgradeVars, bossSpawned>>
  /\ pc' = PhaseAfter("commit")
  /\ lastAction' = "commit"
  /\ LET kept == {i \in entities \cup SeqToSet(entitiesToAdd) : alive[i]}
     IN /\ entities' = kept
        /\ kind' = Restrict(kind, kept)
        /\ alive' = Restrict(alive, kept)
  /\ entitiesToAdd' = <<>>
  /\ UNCHANGED <<registry, now, dt, nextId, spawnTimer, currentWave, nextMiniBossWave,
                 finalBossSpawned, activeBoss, currentWarning, isSpawningBoss,
                 spawnAdded, enc>>

\* BossSystem.requestSpawnBoss(bossKey, bossType), called between frames
RequestSpawnBoss ==
  /\ pc = "frame"
  /\ UNCHANGED <<combatVars, ccdVars, worldVars, busVars, upgradeVars, bossSpawned>>
  /\ now \in RequestTimes
  /\ lastAction # "requestSpawnBoss"
  /\ lastAction' = "requestSpawnBoss"
  /\ \E key \in RequestKeys, type \in {"mini", "final"} :
       currentWarning' = RequestSpawnBossWarning(key, type)
  /\ UNCHANGED <<registry, pc, now, dt, entities, entitiesToAdd, nextId, kind, alive,
                 spawnTimer, currentWave, nextMiniBossWave, finalBossSpawned,
                 activeBoss, isSpawningBoss, spawnAdded, enc>>

\* The combat entities and the swept test are not part of this specification
InitCombatIdle ==
  /\ enemy = <<>>
  /\ projectile = <<>>
  /\ towerHp = 0
  /\ invincibleTower = FALSE
  /\ collisionPairs = <<>>
  /\ pairIndex = 0
  /\ damageEvents = <<>>
  /\ emitted = NoneEmitted

InitCcdIdle == ccd = NoCcd

\* World.entitiesToRemove is empty (the systems never call World.remove)
InitWorldIdle == entitiesToRemove = <<>> /\ entityId = <<>>

\* The subscriptions of a run: one handler on each encounter key the Event
\* Channel declares; no emit has been made
EncounterListeners == [k \in {"BossSpawned", "BossDefeated"} |-> <<1>>]
NoDispatch == [state |-> "idle", key |-> "", index |-> 0, atStart |-> <<>>]
InitBusIdle ==
  /\ listeners = EncounterListeners
  /\ invoked = <<>>
  /\ dispatch = NoDispatch
  /\ handlerBody = <<>>

\* UpgradeSystem.levels is an empty Map
InitUpgradeIdle == levels = <<>>

\* State after construction and Game.startRun
InitScheduler ==
  /\ registry = SchedulerRegistry
  /\ pc = "frame"
  /\ now = 0
  /\ dt = 0
  /\ entities = {}
  /\ entitiesToAdd = <<>>
  /\ nextId = 1
  /\ kind = <<>>
  /\ alive = <<>>
  /\ spawnTimer = 0
  /\ currentWave = 0
  /\ nextMiniBossWave = 1
  /\ finalBossSpawned = FALSE
  /\ activeBoss = NoBoss
  /\ currentWarning = NoWarning
  /\ isSpawningBoss = FALSE
  /\ lastAction = "init"
  /\ spawnAdded = FALSE
  /\ enc = NoEncounter
  /\ bossSpawned = NoneSpawned

Init ==
  /\ InitScheduler /\ InitCombatIdle /\ InitCcdIdle /\ InitWorldIdle
  /\ InitBusIdle /\ InitUpgradeIdle

Next ==
  \/ ClockTick
  \/ SpawnUpdate
  \/ MovementUpdate
  \/ CombatResolve
  \/ BossUpdate
  \/ WorldUpdate
  \/ RequestSpawnBoss

Spec == Init /\ [][Next]_vars

\* Game.update without dev-tool calls
NextScheduled ==
  \/ ClockTick
  \/ SpawnUpdate
  \/ MovementUpdate
  \/ CombatResolve
  \/ BossUpdate
  \/ WorldUpdate

(***************************************************************************)
(* Claims about the schedulers (checked under Spec)                        *)
(***************************************************************************)

\* C1: SpawnSystem.update never adds an ordinary enemy in a frame in which
\* BossSystem is in Warning (a warning is pending, whatever its time
\* remaining), Spawning or Active.  SpawnUpdate leaves the BossSystem fields
\* unchanged, so the state right after it shows the scheduler state it ran in.
C1_NoSpawnDuringEncounter ==
  (lastAction = "spawn" /\ spawnAdded) => ~EncounterInProgress

\* C2: while an encounter is in Warning, Spawning or Active, a further
\* trigger attempt is a no-op.  For requestSpawnBoss: the pending warning,
\* the active encounter enemy and the periodic index are unchanged.  For the
\* scheduled triggers evaluated in BossSystem.update: a pending warning keeps
\* its kind and key and only counts down (or expires into the spawn), and an
\* encounter whose enemy is still in the store is left as it is.
C2_TriggerIsNoOp ==
  [][ /\ (EncounterInProgress /\ lastAction' = "requestSpawnBoss")
           => /\ currentWarning' = currentWarning
              /\ activeBoss' = activeBoss
              /\ nextMiniBossWave' = nextMiniBossWave
      /\ (currentWarning # NoWarning /\ pc = "boss" /\ lastAction' = "boss")
           => \/ currentWarning' = NoWarning
              \/ currentWarning' =
                   [currentWarning EXCEPT !.timeRemaining = @ - Tenths(dt)]
      /\ (isSpawningBoss /\ activeBoss # NoBoss /\ WorldHas(activeBoss)
            /\ pc = "boss" /\ lastAction' = "boss")
           => /\ currentWarning' = currentWarning
              /\ activeBoss' = activeBoss
              /\ nextMiniBossWave' = nextMiniBossWave
    ]_vars

\* Encounter enemies (created by BossSystem) that are alive, committed to the
\* store or queued for it
LiveBosses ==
  {i \in entities \cup SeqToSet(entitiesToAdd) : kind[i] = "boss" /\ alive[i]}

\* C3: at most one encounter is in progress: a pending warning and the
\* spawning/active flag are never set together, activeBoss is set only while
\* the flag is set, and at most one encounter enemy is live in the world.
C3_AtMostOneEncounter ==
  /\ ~(currentWarning # NoWarning /\ isSpawningBoss)
  /\ (activeBoss # NoBoss => isSpawningBoss)
  /\ Cardinality(LiveBosses) <= 1

\* An encounter enemy is active, live and committed, after a request was
\* made and refused
C3_Witness ==
  /\ activeBoss # NoBoss
  /\ WorldHas(activeBoss)
  /\ alive[activeBoss]
  /\ isSpawningBoss
  /\ lastAction = "requestSpawnBoss"

\* The encounter enemy has left the world
EncounterEnemyGone ==
  enc.boss # NoBoss /\ enc.boss \notin entities \cup SeqToSet(entitiesToAdd)

\* C10: the two ways an encounter ends are reported distinctly.  When the
\* encounter enemy was removed because it reached the boundary,
\* BossReachedGround was emitted and the defeat notification is not emitted
\* for it; when it was removed by a kill, the defeat notification is emitted
\* (by the next BossSystem.update) and BossReachedGround is not.
C10_EndingsReportedDistinctly ==
  /\ (enc.boundary /\ EncounterEnemyGone)
       => (enc.groundEvt /\ ~enc.defeatedEvt)
  /\ (enc.killed /\ ~enc.boundary /\ EncounterEnemyGone)
       => /\ ~enc.groundEvt
          /\ (lastAction = "boss" => enc.defeatedEvt)

C13_PeriodicScaling ==
  LET k == bossSpawned.minis
      bp == registry.blueprints[bossSpawned.key]
      m == registry.miniBosses.statModifiers
      st == bossSpawned.stats
  IN /\ bossSpawned.type = "mini"
          => /\ st.hp = (bp.hp * (100 + (k - 1) * m.hp)) \div 100
             /\ st.maxHp = st.hp
             /\ st.damage = (bp.damage * (100 + (k - 1) * m.damage)) \div 100
             /\ st.speed100 = bp.speed * (100 + (k - 1) * m.speed)
             /\ (k = 1 => /\ st.hp = bp.hp
                          /\ st.damage = bp.damage
                          /\ st.speed100 = 100 * bp.speed)
     /\ bossSpawned.type = "final"
          => /\ st.hp = bp.hp
             /\ st.maxHp = bp.maxHp
             /\ st.damage = bp.damage
             /\ st.speed100 = 100 * bp.speed

\* The second periodic encounter has been created: one step of each modifier
C13_Witness ==
  /\ bossSpawned.type = "mini"
  /\ bossSpawned.minis = 2
  /\ bossSpawned.stats.hp = 2 * registry.blueprints[bossSpawned.key].hp
  /\ bossSpawned.stats.damage = 4

\* t lies in the warning window of some periodic encounter k >= 1
InPeriodicWindow(t) ==
  \E k \in 1..((t \div registry.miniBosses.interval) + 1) :
    /\ t >= k * registry.miniBosses.interval - registry.miniBosses.warningTime
    /\ t < k * registry.miniBosses.interval

\* No warning is pending and no encounter is spawning or active
SchedulerIdle ==
  currentWarning = NoWarning /\ ~isSpawningBoss /\ activeBoss = NoBoss

\* C14: periodic encounters recur at every interval: whenever
\* BossSystem.update runs with the scheduler Idle at an elapsed time inside
\* the window [k*interval - warningTime, k*interval) of some k >= 1, a
\* periodic Warning is pending after it, whatever happened in the earlier
\* windows.
C14_PeriodicRecurs ==
  [][ (pc = "boss" /\ SchedulerIdle /\ InPeriodicWindow(now))
        => (currentWarning' # NoWarning /\ currentWarning'.type = "mini")
    ]_vars

\* The frame pipeline without dev-tool calls, with the game loop running on
\* (requestAnimationFrame schedules the next frame after every frame)
SpecFair == Init /\ [][NextScheduled]_vars /\ WF_vars(NextScheduled)

\* C15: every run whose elapsed time reaches the final encounter's trigger
\* time gets the final encounter: the final encounter enemy is eventually
\* spawned, also when a periodic encounter was Warning or Active during the
\* final warning window.
C15_FinalEncounterHappens ==
  (now >= registry.finalBoss.spawnTime) ~> finalBossSpawned

\* The frame pipeline with dev-tool calls, the game loop running on
SpecToolsFair == Init /\ [][Next]_vars /\ WF_vars(NextScheduled)

\* spawnBoss has set the spawning flag and created no encounter enemy
SpawnFailed == isSpawningBoss /\ activeBoss = NoBoss

\* C16: a failed encounter spawn (unknown blueprint key when the countdown
\* expires) only skips that encounter: afterwards the scheduler is eventually
\* Idle again and isPreventingNormalSpawns() is false, so ordinary spawning
\* resumes.
C16_FailedSpawnRecovers ==
  SpawnFailed ~> (~isSpawningBoss /\ ~IsPreventingNormalSpawns)

\* Game.endRun(reason): inRun = false and world.clear(); Game.update skips
\* the systems from then on
EndRun ==
  /\ pc = "frame"
  /\ pc' = "ended"
  /\ lastAction' = "endRun"
  /\ entities' = {}
  /\ entitiesToAdd' = <<>>
  /\ kind' = <<>>
  /\ alive' = <<>>
  /\ UNCHANGED <<registry, now, dt, nextId, spawnTimer, currentWave,
                 nextMiniBossWave, finalBossSpawned, activeBoss, currentWarning,
                 isSpawningBoss, spawnAdded, enc, bossSpawned, combatVars,
                 ccdVars, worldVars, busVars, upgradeVars>>

NextRun ==
  \/ NextScheduled
  \/ EndRun

\* A run that can be ended between any two frames
SpecRun == Init /\ [][NextRun]_vars

\* C32: right after endRun the store holds no committed and no pending
\* entity, and every scheduler's counters (spawn timer and current band,
\* encounter warning, active encounter, periodic index, final-spawned flag)
\* are back at their initial values.
C32_EndRunResetsAll ==
  pc = "ended" =>
    /\ entities = {}
    /\ entitiesToAdd = <<>>
    /\ spawnTimer = 0
    /\ currentWave = 0
    /\ currentWarning = NoWarning
    /\ activeBoss = NoBoss
    /\ isSpawningBoss = FALSE
    /\ nextMiniBossWave = 1
    /\ finalBossSpawned = FALSE

\* The handlers subscribed to `key` are each called in the step
CalledInStep(key) ==
  \A k \in 1..Len(listeners[key]) :
    \E n \in (Len(invoked) + 1)..Len(invoked') :
      invoked'[n] = <<key, listeners[key][k]>>

\* C34: each encounter transition is published under the key the Event
\* Channel declares: a handler subscribed with EventBus.on to BossSpawned is
\* called when an encounter enemy is spawned, and a handler subscribed to
\* BossDefeated is called when the encounter is resolved by a kill.
C34_EncounterKeysDeclared ==
  [][/\ (activeBoss' # NoBoss /\ activeBoss' # activeBoss)
          => CalledInStep("BossSpawned")
     /\ (pc = "boss" /\ activeBoss # NoBoss /\ ~WorldHas(activeBoss))
          => CalledInStep("BossDefeated")]_vars

\* The systems that have not yet run in the current tick when the system of
\* phase p is about to run
PhasesFrom(p) ==
  IF p \notin SeqToSet(Pipeline) THEN {}
  ELSE LET k == CHOOSE i \in 1..Len(Pipeline) : Pipeline[i] = p
       IN {Pipeline[i] : i \in k..Len(Pipeline)}

\* C33: within a tick the systems run as motion integration, collision scan
\* with the combat resolution of that tick's pairs, then the spawn and
\* encounter schedulers, then the store commit last; the spawn scheduler
\* never runs before the same tick's combat resolution.
C33_TickOrder ==
  /\ pc = "collide" => "move" \notin PhasesFrom(pc)
  /\ pc = "spawn" => PhasesFrom(pc) \cap {"move", "collide"} = {}
  /\ pc = "boss" => PhasesFrom(pc) \cap {"move", "collide"} = {}
  /\ pc = "commit" => PhasesFrom(pc) = {"commit"}

(***************************************************************************)
(* SpecLadder: the frame pipeline with the periodic ladder of the          *)
(* reference configuration (encounters every 60 s with a 10 s warning,     *)
(* the final encounter at 600 s with a 30 s warning) and one wave band     *)
(* [0,60) with interval 2 s and a single enemy type; requestSpawnBoss is   *)
(* not called.                                                             *)
(***************************************************************************)
LadderRegistry ==
  [waves |-> << [timeStart |-> 0, timeEnd |-> 60, spawnInterval |-> 2,
                 enemies |-> <<"basic">>] >>,
   enemies |-> {"basic"},
   bosses |-> {"shadowStalker", "ancientTitan"},
   blueprints |-> BossBlueprints,
   miniBosses |-> [enabled |-> TRUE, interval |-> 60, warningTime |-> 10,
                   statModifiers |-> [hp |-> 100, damage |-> 50, speed |-> 10],
                   pool |-> <<"shadowStalker">>],
   finalBoss |-> [spawnTime |-> 600, warningTime |-> 30,
                  key |-> "ancientTitan"]]

\* The state after construction and startRun, for a given registry
InitWithRegistry(reg) ==
  /\ registry = reg
  /\ pc = "frame"
  /\ now = 0
  /\ dt = 0
  /\ entities = {}
  /\ entitiesToAdd = <<>>
  /\ nextId = 1
  /\ kind = <<>>
  /\ alive = <<>>
  /\ spawnTimer = 0
  /\ currentWave = 0
  /\ nextMiniBossWave = 1
  /\ finalBossSpawned = FALSE
  /\ activeBoss = NoBoss
  /\ currentWarning = NoWarning
  /\ isSpawningBoss = FALSE
  /\ lastAction = "init"
  /\ spawnAdded = FALSE
  /\ enc = NoEncounter
  /\ bossSpawned = NoneSpawned
  /\ InitCombatIdle
  /\ InitCcdIdle
  /\ InitWorldIdle
  /\ InitBusIdle
  /\ InitUpgradeIdle

InitLadder == InitWithRegistry(LadderRegistry)

SpecLadder == InitLadder /\ [][NextScheduled]_vars

\* The encounter enemy was created by the BossSystem.update of this frame
BossJustSpawned ==
  /\ pc = "commit"
  /\ activeBoss # NoBoss
  /\ activeBoss \in SeqToSet(entitiesToAdd)

\* C12: with interval 60 s and warning 10 s the Warning begins at t = 50
\* (none is pending earlier, one is pending once BossSystem.update has run at
\* t = 50) and the encounter enemy is spawned at t = 60: a full warning
\* duration after the Warning began, not before the threshold k * interval.
C12_WarningThenSpawnAtThreshold ==
  /\ (currentWarning # NoWarning /\ nextMiniBossWave = 1)
       => now >= registry.miniBosses.interval - registry.miniBosses.warningTime
  /\ (now = registry.miniBosses.interval - registry.miniBosses.warningTime
        /\ pc = "commit")
       => currentWarning # NoWarning
  /\ BossJustSpawned
       => now >= (nextMiniBossWave - 1) * registry.miniBosses.interval

\* C19: from a reset SpawnSystem at elapsed time 0, in the band [0,60) with
\* interval 2 s and one enemy type, the k-th enemy is added no earlier than
\* k whole intervals after the start (t = 2, 4, 6, ...).
C19_KthSpawnAtKIntervals ==
  (lastAction = "spawn" /\ spawnAdded /\ bossSpawned = NoneSpawned)
    => now >= registry.waves[currentWave].spawnInterval * (nextId - 1)

(***************************************************************************)
(* SpecWaves: the frame loop over wave bands whose weighted tables name    *)
(* only a key the factory does not know, are empty, mix known and unknown  *)
(* keys, or are missing; no band contains the times 12 and 13.             *)
(***************************************************************************)
WavesRegistry ==
  [waves |-> << [timeStart |-> 0, timeEnd |-> 6, spawnInterval |-> 2,
                 enemies |-> <<"noSuchEnemy">>],
                [timeStart |-> 6, timeEnd |-> 12, spawnInterval |-> 2,
                 enemies |-> <<>>],
                [timeStart |-> 14, timeEnd |-> 30, spawnInterval |-> 3,
                 enemies |-> <<"basic", "noSuchEnemy">>],
                [timeStart |-> 30, timeEnd |-> 36, spawnInterval |-> 2] >>,
   enemies |-> {"basic"},
   bosses |-> {"shadowStalker", "ancientTitan"},
   blueprints |-> BossBlueprints,
   miniBosses |-> [enabled |-> FALSE, interval |-> 60, warningTime |-> 10,
                   statModifiers |-> [hp |-> 100, damage |-> 50, speed |-> 10],
                   pool |-> <<"shadowStalker">>],
   finalBoss |-> [spawnTime |-> 600, warningTime |-> 30,
                  key |-> "ancientTitan"]]

InitWaves == InitWithRegistry(WavesRegistry)

SpecWaves == InitWaves /\ [][NextScheduled]_vars

\* SpawnSystem.update is about to let its timer expire in the band w
SpawnTimerExpires(w) ==
  /\ pc = "spawn"
  /\ ~IsPreventingNormalSpawns
  /\ w = FindCurrentWave(now)
  /\ w # 0
  /\ spawnTimer - dt <= 0

\* Every key of the band's weighted table is unknown to the factory
OnlyUnknownKeys(w) ==
  /\ HasEnemyTable(registry.waves[w])
  /\ Len(registry.waves[w].enemies) > 0
  /\ \A key \in SeqToSet(registry.waves[w].enemies) :
       key \notin registry.enemies \cup registry.bosses

\* C17: when the weighted selection yields a key the factory does not know,
\* SpawnSystem.update does not throw, adds no entity, consumes no entity id
\* and resets the spawn timer to the band's interval.
C17_UnknownKeySkipsSpawn ==
  [][\A w \in 1..Len(registry.waves) :
       (SpawnTimerExpires(w) /\ OnlyUnknownKeys(w))
         => /\ pc' = PhaseAfter("spawn")
            /\ entitiesToAdd' = entitiesToAdd
            /\ nextId' = nextId
            /\ ~spawnAdded'
            /\ spawnTimer' = registry.waves[w].spawnInterval]_vars

\* A spawn attempt in the band of unknown keys has been made and skipped
C17_Witness ==
  /\ lastAction = "spawn"
  /\ currentWave # 0
  /\ OnlyUnknownKeys(currentWave)
  /\ spawnTimer = registry.waves[currentWave].spawnInterval
  /\ pc = PhaseAfter("spawn")
  /\ entitiesToAdd = <<>>

\* C18: when the active band's weighted table is empty or missing,
\* SpawnSystem.update completes without raising an error and adds no entity
\* in that tick.
C18_NoTableNoSpawnNoError ==
  [][\A w \in 1..Len(registry.waves) :
       (pc = "spawn" /\ ~IsPreventingNormalSpawns /\ w = FindCurrentWave(now)
          /\ (~HasEnemyTable(registry.waves[w])
                \/ Len(registry.waves[w].enemies) = 0))
         => /\ pc' = PhaseAfter("spawn")
            /\ entitiesToAdd' = entitiesToAdd
            /\ nextId' = nextId]_vars

\* The bands whose half-open window [timeStart, timeEnd) contains t
BandsContaining(t) ==
  {w \in 1..Len(registry.waves) :
     registry.waves[w].timeStart <= t /\ t < registry.waves[w].timeEnd}

C21_WitnessNoBand ==
  /\ lastAction = "spawn"
  /\ BandsContaining(now) = {}
  /\ currentWave = 0

(***************************************************************************)
(* SpecCCD: the swept projectile/enemy test.  One projectile with integer  *)
(* position and velocity is moved by MovementSystem (previous position     *)
(* recorded, position integrated) and then tested against one enemy by     *)
(* CollisionSystem.checkRayCircleCollision.                                *)
(***************************************************************************)
CcdGrid == 3          \* start coordinates of the projectile: -CcdGrid..CcdGrid
CcdSpeed == 3         \* velocity components (px per frame): -CcdSpeed..CcdSpeed
CcdFrames == 2        \* frames the projectile is moved and tested

CcdProjectileRadii == {1}
CcdEnemyRadii == {1, 2}
CcdEnemyPositions == {[x |-> 0, y |-> 0], [x |-> 1, y |-> -1]}

Dot(u, v) == u.x * v.x + u.y * v.y
Minus(u, v) == [x |-> u.x - v.x, y |-> u.y - v.y]
Scaled(u, k) == [x |-> u.x * k, y |-> u.y * k]
Plus(u, v) == [x |-> u.x + v.x, y |-> u.y + v.y]

\* Math.sqrt(D) <= k and Math.sqrt(D) >= k, for integers D >= 0 and k
SqrtLeq(D, k) == k >= 0 /\ D <= k * k
SqrtGeq(D, k) == k <= 0 \/ D >= k * k

\* The quadratic of checkRayCircleCollision: |prevPos + t*d - enemy.pos|^2 = r^2
RayCircleQuadratic(p, e) ==
  LET d == Minus(p.pos, p.prevPos)
      f == Minus(p.prevPos, e.pos)
      a == Dot(d, d)
      b == 2 * Dot(f, d)
      combinedRadius == e.radius + p.radius
      c == Dot(f, f) - combinedRadius * combinedRadius
  IN [a |-> a, b |-> b, c |-> c, discriminant |-> b * b - 4 * a * c]

\* checkRayCircleCollision that accepts a root anywhere on the ray (t >= 0)
CheckRayCircleCollisionOnRay(p, e) ==
  LET q == RayCircleQuadratic(p, e)
  IN IF q.discriminant < 0 THEN FALSE
     ELSE IF q.a = 0 THEN FALSE
     ELSE SqrtLeq(q.discriminant, -q.b) \/ SqrtGeq(q.discriminant, q.b)

\* CollisionSystem.checkRayCircleCollision(projectile, enemy).
\* t1 = (-b - sqrt(disc)) / (2a), t2 = (-b + sqrt(disc)) / (2a); with a > 0
\* the comparisons of t1, t2 with 0 and 1 are comparisons of sqrt(disc) with
\* integers.  With a = 0 (prevPos = pos) both quotients are 0/0 = NaN and
\* every comparison with NaN is false.
CheckRayCircleCollision(p, e) ==
  LET q == RayCircleQuadratic(p, e)
  IN IF q.discriminant < 0 THEN FALSE
     ELSE IF q.a = 0 THEN FALSE
     ELSE LET t1InSegment == /\ SqrtLeq(q.discriminant, -q.b)
                             /\ SqrtGeq(q.discriminant, -q.b - 2 * q.a)
              t2InSegment == /\ SqrtGeq(q.discriminant, q.b)
                             /\ SqrtLeq(q.discriminant, 2 * q.a + q.b)
          IN t1InSegment \/ t2InSegment

\* MovementSystem.update for the projectile, then for the next frame
CcdMove ==
  /\ ccd.phase \in {"created", "scanned"}
  /\ ccd.frames < CcdFrames
  /\ \E d \in DtChoices :
       ccd' = [ccd EXCEPT
                 !.phase = "moved",
                 !.frames = @ + 1,
                 !.projectile = [@ EXCEPT
                     !.prevPos = ccd.projectile.pos,
                     !.pos = Plus(ccd.projectile.pos,
                                  Scaled(ccd.projectile.vel, d))]]
  /\ UNCHANGED <<schedVars, combatVars, worldVars, busVars, upgradeVars>>

\* CollisionSystem.update: the projectile-enemy test of the frame
CcdScan ==
  /\ ccd.phase = "moved"
  /\ ccd' = [ccd EXCEPT
               !.phase = "scanned",
               !.hit = CheckRayCircleCollision(ccd.projectile, ccd.enemy)]
  /\ UNCHANGED <<schedVars, combatVars, worldVars, busVars, upgradeVars>>

InitCCD ==
  /\ InitScheduler
  /\ InitCombatIdle
  /\ InitWorldIdle
  /\ InitBusIdle
  /\ InitUpgradeIdle
  /\ \E px, py \in -CcdGrid..CcdGrid, vx, vy \in -CcdSpeed..CcdSpeed,
        pr \in CcdProjectileRadii, er \in CcdEnemyRadii,
        ep \in CcdEnemyPositions :
       ccd = [phase |-> "created", frames |-> 0, hit |-> FALSE,
              projectile |-> [pos |-> [x |-> px, y |-> py],
                              prevPos |-> [x |-> px, y |-> py],
                              vel |-> [x |-> vx, y |-> vy],
                              radius |-> pr],
              enemy |-> [pos |-> ep, radius |-> er]]

NextCCD == CcdMove \/ CcdScan

SpecCCD == InitCCD /\ [][NextCCD]_vars

(***************************************************************************)
(* Claims about the swept test (checked under SpecCCD)                     *)
(***************************************************************************)
\* Some point of the segment prevPos..pos lies within the combined radius of
\* the enemy's center: the point of the segment nearest to the center is the
\* start, the end, or the foot of the perpendicular (exact integer form).
SegmentComesWithin(p, e) ==
  LET d == Minus(p.pos, p.prevPos)
      f == Minus(p.prevPos, e.pos)
      g == Minus(p.pos, e.pos)
      a == Dot(d, d)
      along == -Dot(f, d)
      r == e.radius + p.radius
  IN IF a = 0 \/ along <= 0 THEN Dot(f, f) <= r * r
     ELSE IF along >= a THEN Dot(g, g) <= r * r
     ELSE a * Dot(f, f) - along * along <= a * r * r

\* The test of the frame has been made on the current segment
CcdScanned == ccd.phase = "scanned"

\* C8: whenever some point of the segment from the projectile's previous
\* position to its current position lies within the combined radius of the
\* enemy's center (a segment wholly inside the circle and a zero-length
\* segment included), checkRayCircleCollision reports a hit.
C8_NoMissedHit ==
  (CcdScanned /\ SegmentComesWithin(ccd.projectile, ccd.enemy)) => ccd.hit

\* C9: checkRayCircleCollision reports no hit when the minimum distance
\* between the segment and the enemy's center exceeds the sum of the radii.
C9_NoHitBeyondRadius ==
  (CcdScanned /\ ~SegmentComesWithin(ccd.projectile, ccd.enemy)) => ~ccd.hit

\* A moving projectile whose line of flight crosses the enemy's circle while
\* its segment of this frame stays farther than the combined radius
C9_Witness ==
  /\ CcdScanned
  /\ ~SegmentComesWithin(ccd.projectile, ccd.enemy)
  /\ RayCircleQuadratic(ccd.projectile, ccd.enemy).a > 0
  /\ RayCircleQuadratic(ccd.projectile, ccd.enemy).discriminant > 0
  /\ ~ccd.hit

(***************************************************************************)
(* SpecCombat: enemies, projectiles and the tower through the frames of    *)
(* Game.update: MovementSystem.update, CollisionSystem.update (the pairs   *)
(* of the frame), CombatSystem.processCollisions pair by pair, the         *)
(* entities' own update, World.update.  Positions are inputs: which pairs  *)
(* the scan reports is chosen freely among the entities of the store; the  *)
(* enemies keep an x coordinate for the explosion's distance falloff.      *)
(***************************************************************************)
MaxFrames == 2        \* frames of a combat run
MaxHitsBound == 2     \* largest maxHits of a projectile blueprint

EnemyIds == {1, 2}
ProjectileIds == {3, 4}
TowerId == 0

EnemyHpChoices == {5, 25}
\* x coordinate of the enemies: 20 px apart
EnemyX == [i \in EnemyIds |-> 20 * (i - 1)]
TowerHpChoices == {2}

\* CombatSystem.clearOldDamageEvents: maxAge 3000 ms, in frames of 1 s
DamageEventMaxAge == 3

\* Projectile blueprints (damage, physics.piercing, physics.maxHits,
\* effects.explosion*, lifetime in frames)
ProjectileBlueprints ==
  { [damage |-> 10, piercing |-> FALSE, maxHits |-> 1, explosion |-> FALSE,
     explosionRadius |-> 0, explosionDamagePct |-> 0, lifetime |-> 3],
    [damage |-> 10, piercing |-> TRUE, maxHits |-> MaxHitsBound,
     explosion |-> FALSE, explosionRadius |-> 0, explosionDamagePct |-> 0,
     lifetime |-> 2],
    [damage |-> 10, piercing |-> FALSE, maxHits |-> MaxHitsBound,
     explosion |-> TRUE, explosionRadius |-> 30, explosionDamagePct |-> 100,
     lifetime |-> 3] }

\* variables of the schedulers that combat leaves alone
schedulerOnlyVars == <<registry, entitiesToAdd, nextId, spawnTimer, currentWave,
                       nextMiniBossWave, finalBossSpawned, activeBoss,
                       currentWarning, isSpawningBoss, lastAction, spawnAdded,
                       enc, bossSpawned>>

Abs(n) == IF n < 0 THEN -n ELSE n

\* Math.round(n / d) for n >= 0, d > 0
Round(n, d) == (2 * n + d) \div (2 * d)

\* Math.floor in the place of Math.ceil
CeilAsFloor(n, d) == n \div d

\* Math.ceil(n / d) for n >= 0, d > 0
Ceil(n, d) == (n + d - 1) \div d

RECURSIVE SortedSeq(_)
\* the ids of S in the store's iteration order (insertion order = id order)
SortedSeq(S) ==
  IF S = {} THEN <<>>
  ELSE LET m == CHOOSE i \in S : \A j \in S : i <= j
       IN <<m>> \o SortedSeq(S \ {m})

EnemiesInStore == {i \in entities : kind[i] = "enemy"}
ProjectilesInStore == {i \in entities : kind[i] = "projectile"}

\* Enemy.applyDamage that sets alive from the hp that is left
EnemyApplyDamageReviving(hp, isAlive, amount) ==
  [hp |-> hp - amount,
   alive |-> hp - amount > 0,
   wasKilled |-> hp - amount <= 0]

\* Enemy.applyDamage(amount) on an enemy with the given hp and alive flag
EnemyApplyDamage(hp, isAlive, amount) ==
  [hp |-> hp - amount,
   alive |-> IF hp - amount <= 0 THEN FALSE ELSE isAlive,
   wasKilled |-> hp - amount <= 0]

\* Projectile.onHit that deactivates a piercing projectile one hit late
OnHitLate(proj, isAlive) ==
  [hitCount |-> proj.hitCount + 1,
   alive |-> IF ~proj.piercing THEN FALSE
             ELSE IF proj.hitCount + 1 > proj.maxHits THEN FALSE
             ELSE isAlive]

\* Projectile.onHit
OnHit(proj, isAlive) ==
  [hitCount |-> proj.hitCount + 1,
   alive |-> IF ~proj.piercing THEN FALSE
             ELSE IF proj.hitCount + 1 >= proj.maxHits THEN FALSE
             ELSE isAlive]

\* Tower.applyDamage without the clamp at 0
TowerApplyDamageUnclamped(hp, amount) ==
  [hp |-> hp - amount, destroyed |-> hp - amount <= 0]

\* Tower.applyDamage(amount)
TowerApplyDamage(hp, amount) ==
  [hp |-> IF hp - amount > 0 THEN hp - amount ELSE 0,
   destroyed |-> hp - amount <= 0]

\* A damage event that records twice the amount applied
DamageEventDoubled(target, amount) ==
  [target |-> target, amount |-> 2 * amount, t |-> now]

\* The entry pushed to damageEvents (target, amount, timestamp)
DamageEvent(target, amount) == [target |-> target, amount |-> amount, t |-> now]

\* handleExplosion: explosionDamage and the damage scaled by distance
ExplosionBaseDamage(proj) == Round(proj.damage * proj.explosionDamagePct, 100)
ExplosionScaledDamage(proj, distance) ==
  Round(ExplosionBaseDamage(proj) * (2 * proj.explosionRadius - distance),
        2 * proj.explosionRadius)

\* handleExplosion without the `if (!enemy.alive) continue` line
HandleExplosionAlsoDead(proj, center, en, al) ==
  LET dist(i) == Abs(en[i].x - center)
      dmg(i) == ExplosionScaledDamage(proj, dist(i))
      targets == {i \in DOMAIN en : /\ dist(i) <= proj.explosionRadius
                                    /\ dmg(i) > 0}
      res(i) == EnemyApplyDamage(en[i].hp, al[i], dmg(i))
      order == SortedSeq(targets)
  IN [enemy |-> [i \in DOMAIN en |->
                   IF i \in targets THEN [en[i] EXCEPT !.hp = res(i).hp]
                   ELSE en[i]],
      alive |-> [i \in DOMAIN al |->
                   IF i \in targets THEN res(i).alive ELSE al[i]],
      events |-> [k \in 1..Len(order) |-> DamageEvent(order[k], dmg(order[k]))],
      killed |-> {i \in targets : res(i).wasKilled}]

\* CombatSystem.handleExplosion(projectile, center) on the enemies en with
\* alive flags al: the enemies, flags, logged events and EnemyKilled targets
HandleExplosion(proj, center, en, al) ==
  LET dist(i) == Abs(en[i].x - center)
      dmg(i) == ExplosionScaledDamage(proj, dist(i))
      targets == {i \in DOMAIN en : /\ al[i]
                                    /\ dist(i) <= proj.explosionRadius
                                    /\ dmg(i) > 0}
      res(i) == EnemyApplyDamage(en[i].hp, al[i], dmg(i))
      order == SortedSeq(targets)
  IN [enemy |-> [i \in DOMAIN en |->
                   IF i \in targets THEN [en[i] EXCEPT !.hp = res(i).hp]
                   ELSE en[i]],
      alive |-> [i \in DOMAIN al |->
                   IF i \in targets THEN res(i).alive ELSE al[i]],
      events |-> [k \in 1..Len(order) |-> DamageEvent(order[k], dmg(order[k]))],
      killed |-> {i \in targets : res(i).wasKilled}]

\* Game.gameLoop in a combat run
CombatClockTick ==
  /\ pc = "frame"
  /\ now < MaxFrames
  /\ \E d \in DtChoices : dt' = d /\ now' = now + d
  /\ pc' = "move"
  /\ UNCHANGED <<entities, kind, alive, schedulerOnlyVars, combatVars, ccdVars, worldVars, busVars, upgradeVars>>

\* MovementSystem.update: the enemies of `reached` come within 40 px of the
\* center and are marked dead
CombatMove ==
  /\ pc = "move"
  /\ pc' = "collide"
  /\ \E reached \in SUBSET EnemiesInStore :
       alive' = [i \in DOMAIN alive |->
                   IF i \in reached THEN FALSE ELSE alive[i]]
  /\ UNCHANGED <<now, dt, entities, kind, schedulerOnlyVars, combatVars, ccdVars, worldVars, busVars, upgradeVars>>

\* The projectile-enemy pairs of `hits` in the order of the scan
\* (projectiles in store order, for each the enemies in store order)
ProjectileEnemyPairs(hits) ==
  LET ps == SortedSeq(ProjectilesInStore)
      es == SortedSeq(EnemiesInStore)
      all == [k \in 1..(Len(ps) * Len(es)) |->
                [type |-> "projectile-enemy",
                 entityA |-> ps[((k - 1) \div Len(es)) + 1],
                 entityB |-> es[((k - 1) % Len(es)) + 1]]]
  IN SelectSeq(all, LAMBDA c : <<c.entityA, c.entityB>> \in hits)

EnemyGroundPairs(ground) ==
  LET es == SortedSeq(ground)
  IN [k \in 1..Len(es) |->
        [type |-> "enemy-ground", entityA |-> es[k], entityB |-> es[k]]]

EnemyTowerPairs(contact) ==
  LET es == SortedSeq(contact)
  IN [k \in 1..Len(es) |->
        [type |-> "enemy-tower", entityA |-> es[k], entityB |-> TowerId]]

\* CollisionSystem.update: every entity of the store takes part, dead or
\* alive; the geometry (which tests succeed) is an input
CollisionScan ==
  /\ pc = "collide"
  /\ pc' = "combat"
  /\ \E hits \in SUBSET (ProjectilesInStore \X EnemiesInStore),
        ground \in SUBSET EnemiesInStore,
        contact \in SUBSET EnemiesInStore :
       collisionPairs' = ProjectileEnemyPairs(hits) \o EnemyGroundPairs(ground)
                           \o EnemyTowerPairs(contact)
  /\ pairIndex' = 1
  /\ UNCHANGED <<now, dt, entities, kind, alive, schedulerOnlyVars, enemy,
                 projectile, towerHp, invincibleTower, damageEvents, emitted,
                 ccdVars, worldVars, busVars, upgradeVars>>

\* The pair processCollisions is about to handle
PairPending(type) ==
  /\ pc = "combat"
  /\ pairIndex <= Len(collisionPairs)
  /\ collisionPairs[pairIndex].type = type

\* EnemyKilled emitted once more for each enemy of `killed`, and once more
\* for `e` when `direct`
EmitEnemyKilled(killed, e, direct) ==
  [emitted EXCEPT !.EnemyKilled =
     [i \in DOMAIN emitted.EnemyKilled |->
        emitted.EnemyKilled[i] + (IF i \in killed THEN 1 ELSE 0)
                               + (IF i = e /\ direct THEN 1 ELSE 0)]]

\* CombatSystem.handleProjectileEnemyCollision
HandleProjectileEnemyCollision ==
  /\ PairPending("projectile-enemy")
  /\ LET p == collisionPairs[pairIndex].entityA
         e == collisionPairs[pairIndex].entityB
         proj == projectile[p]
         direct == EnemyApplyDamage(enemy[e].hp, alive[e], proj.damage)
         enemy1 == [enemy EXCEPT ![e].hp = direct.hp]
         alive1 == [alive EXCEPT ![e] = direct.alive]
         blast == IF proj.explosion /\ proj.explosionRadius > 0
                  THEN HandleExplosion(proj, enemy[e].x, enemy1,
                                       Restrict(alive1, DOMAIN enemy))
                  ELSE [enemy |-> enemy1,
                        alive |-> Restrict(alive1, DOMAIN enemy),
                        events |-> <<>>, killed |-> {}]
         hit == OnHit(proj, alive[p])
     IN /\ enemy' = blast.enemy
        /\ projectile' = [projectile EXCEPT ![p].hitCount = hit.hitCount]
        /\ alive' = [i \in DOMAIN alive |->
                       IF i = p THEN hit.alive
                       ELSE IF i \in DOMAIN enemy THEN blast.alive[i]
                       ELSE alive[i]]
        /\ damageEvents' = (damageEvents \o <<DamageEvent(e, proj.damage)>>)
                             \o blast.events
        /\ emitted' = EmitEnemyKilled(blast.killed, e, direct.wasKilled)
  /\ pairIndex' = pairIndex + 1
  /\ UNCHANGED <<pc, now, dt, entities, kind, schedulerOnlyVars, towerHp,
                 invincibleTower, collisionPairs, ccdVars, worldVars, busVars, upgradeVars>>

\* Game.startRun constructs the Tower without an event bus (new Tower(x, y)),
\* so Tower.applyDamage finds this.bus null and emits nothing
TowerHasBus == FALSE

\* The tower takes `amount`, the event is logged and TowerDamaged emitted
\* with damage `amount` by CombatSystem (TowerDestroyed too, by the Tower on
\* its own bus, when its hp is 0 afterwards)
TowerHit(amount) ==
  LET res == TowerApplyDamage(towerHp, amount)
  IN /\ towerHp' = res.hp
     /\ damageEvents' = Append(damageEvents, DamageEvent(TowerId, amount))
     /\ emitted' = [emitted EXCEPT
                      !.TowerDamaged = @ + 1,
                      !.TowerDamagedAmount = amount,
                      !.TowerDestroyed =
                        @ + (IF res.destroyed /\ TowerHasBus THEN 1 ELSE 0)]

\* CombatSystem.handleEnemyGroundCollision
HandleEnemyGroundCollision ==
  /\ PairPending("enemy-ground")
  /\ alive' = [alive EXCEPT ![collisionPairs[pairIndex].entityA] = FALSE]
  /\ IF ~invincibleTower
     THEN TowerHit(1)
     ELSE UNCHANGED <<towerHp, damageEvents, emitted>>
  /\ pairIndex' = pairIndex + 1
  /\ UNCHANGED <<pc, now, dt, entities, kind, schedulerOnlyVars, enemy,
                 projectile, invincibleTower, collisionPairs, ccdVars, worldVars, busVars, upgradeVars>>

\* handleEnemyTowerCollision without the test of the invincibility flag
HandleEnemyTowerCollisionUnguarded ==
  /\ PairPending("enemy-tower")
  /\ alive' = [alive EXCEPT ![collisionPairs[pairIndex].entityA] = FALSE]
  /\ TowerHit(Ceil(enemy[collisionPairs[pairIndex].entityA].maxHp, 2))
  /\ pairIndex' = pairIndex + 1
  /\ UNCHANGED <<pc, now, dt, entities, kind, schedulerOnlyVars, enemy,
                 projectile, invincibleTower, collisionPairs, ccdVars, worldVars, busVars, upgradeVars>>

\* CombatSystem.handleEnemyTowerCollision
HandleEnemyTowerCollision ==
  /\ PairPending("enemy-tower")
  /\ alive' = [alive EXCEPT ![collisionPairs[pairIndex].entityA] = FALSE]
  /\ IF ~invincibleTower
     THEN TowerHit(Ceil(enemy[collisionPairs[pairIndex].entityA].maxHp, 2))
     ELSE UNCHANGED <<towerHp, damageEvents, emitted>>
  /\ pairIndex' = pairIndex + 1
  /\ UNCHANGED <<pc, now, dt, entities, kind, schedulerOnlyVars, enemy,
                 projectile, invincibleTower, collisionPairs, ccdVars, worldVars, busVars, upgradeVars>>

\* Game.update after the collision system: clearOldDamageEvents and
\* setTowerInvincible(dev tool toggle)
CombatSync ==
  /\ pc = "combat"
  /\ pairIndex > Len(collisionPairs)
  /\ pc' = "entities"
  /\ damageEvents' = SelectSeq(damageEvents,
                               LAMBDA ev : now - ev.t < DamageEventMaxAge)
  /\ \E toggle \in BOOLEAN : invincibleTower' = toggle
  /\ UNCHANGED <<now, dt, entities, kind, alive, schedulerOnlyVars, enemy,
                 projectile, towerHp, collisionPairs, pairIndex, emitted,
                 ccdVars, worldVars, busVars, upgradeVars>>

\* Game.update: entity.update(dt) for every entity of the store
\* (Projectile.update: the lifetime runs out)
EntitiesUpdate ==
  /\ pc = "entities"
  /\ pc' = "commit"
  /\ projectile' = [i \in DOMAIN projectile |->
                      [projectile[i] EXCEPT !.lifetime = @ - dt]]
  /\ alive' = [i \in DOMAIN alive |->
                 IF i \in DOMAIN projectile /\ projectile[i].lifetime - dt <= 0
                 THEN FALSE ELSE alive[i]]
  /\ UNCHANGED <<now, dt, entities, kind, schedulerOnlyVars, enemy, towerHp,
                 invincibleTower, collisionPairs, pairIndex, damageEvents,
                 emitted, ccdVars, worldVars, busVars, upgradeVars>>

\* World.update in a combat run: the dead leave the store
CombatCommit ==
  /\ pc = "commit"
  /\ pc' = "frame"
  /\ LET kept == {i \in entities : alive[i]}
     IN /\ entities' = kept
        /\ kind' = Restrict(kind, kept)
        /\ alive' = Restrict(alive, kept)
        /\ enemy' = Restrict(enemy, kept \cap DOMAIN enemy)
        /\ projectile' = Restrict(projectile, kept \cap DOMAIN projectile)
  /\ UNCHANGED <<now, dt, schedulerOnlyVars, towerHp, invincibleTower,
                 collisionPairs, pairIndex, damageEvents, emitted, ccdVars, worldVars, busVars, upgradeVars>>

\* A run in progress: the enemies and projectiles are in the store
InitCombat ==
  /\ registry = SchedulerRegistry
  /\ pc = "frame"
  /\ now = 0
  /\ dt = 0
  /\ entities = EnemyIds \cup ProjectileIds
  /\ entitiesToAdd = <<>>
  /\ nextId = 1 + Cardinality(EnemyIds \cup ProjectileIds)
  /\ kind = [i \in EnemyIds \cup ProjectileIds |->
               IF i \in EnemyIds THEN "enemy" ELSE "projectile"]
  /\ alive = [i \in EnemyIds \cup ProjectileIds |-> TRUE]
  /\ spawnTimer = 0
  /\ currentWave = 0
  /\ nextMiniBossWave = 1
  /\ finalBossSpawned = FALSE
  /\ activeBoss = NoBoss
  /\ currentWarning = NoWarning
  /\ isSpawningBoss = FALSE
  /\ lastAction = "init"
  /\ spawnAdded = FALSE
  /\ enc = NoEncounter
  /\ bossSpawned = NoneSpawned
  /\ \E hp \in [EnemyIds -> EnemyHpChoices] :
       enemy = [i \in EnemyIds |-> [hp |-> hp[i], maxHp |-> hp[i], x |-> EnemyX[i]]]
  /\ \E bp \in [ProjectileIds -> ProjectileBlueprints] :
       projectile = [i \in ProjectileIds |->
                       [damage |-> bp[i].damage, piercing |-> bp[i].piercing,
                        maxHits |-> bp[i].maxHits, hitCount |-> 0,
                        explosion |-> bp[i].explosion,
                        explosionRadius |-> bp[i].explosionRadius,
                        explosionDamagePct |-> bp[i].explosionDamagePct,
                        lifetime |-> bp[i].lifetime]]
  /\ towerHp \in TowerHpChoices
  /\ invincibleTower = FALSE
  /\ collisionPairs = <<>>
  /\ pairIndex = 0
  /\ damageEvents = <<>>
  /\ emitted = [NoneEmitted EXCEPT !.EnemyKilled = [i \in EnemyIds |-> 0]]
  /\ InitCcdIdle
  /\ InitWorldIdle
  /\ InitBusIdle
  /\ InitUpgradeIdle

NextCombat ==
  \/ CombatClockTick
  \/ CombatMove
  \/ CollisionScan
  \/ HandleProjectileEnemyCollision
  \/ HandleEnemyGroundCollision
  \/ HandleEnemyTowerCollision
  \/ CombatSync
  \/ EntitiesUpdate
  \/ CombatCommit

SpecCombat == InitCombat /\ [][NextCombat]_vars

(***************************************************************************)
(* Claims about combat (checked under SpecCombat)                          *)
(***************************************************************************)

\* C4: each enemy entity causes at most one EnemyKilled notification, also
\* when several projectiles and/or an explosion hit it within one frame
\* before the store commits.
C4_AtMostOneEnemyKilled ==
  \A i \in DOMAIN emitted.EnemyKilled : emitted.EnemyKilled[i] <= 1

\* The pair about to be processed has a dead enemy or a dead projectile
DeadPairPending ==
  /\ pc = "combat"
  /\ pairIndex <= Len(collisionPairs)
  /\ \/ ~alive[collisionPairs[pairIndex].entityA]
     \/ /\ collisionPairs[pairIndex].type = "projectile-enemy"
        /\ ~alive[collisionPairs[pairIndex].entityB]

\* C5: processing a collision pair whose enemy or projectile is already dead
\* has no effect: no enemy's hp and not the tower's hp changes, no damage
\* event is logged, no notification is emitted.
C5_DeadPairHasNoEffect ==
  [][ DeadPairPending =>
        /\ enemy' = enemy
        /\ towerHp' = towerHp
        /\ damageEvents' = damageEvents
        /\ emitted' = emitted ]_vars

\* C6: every projectile satisfies hitCount <= maxHits.
C6_HitCountWithinMaxHits ==
  \A i \in DOMAIN projectile : projectile[i].hitCount <= projectile[i].maxHits

\* C7: a non-piercing projectile is dead once it has hit; a piercing
\* projectile with maxHits N is alive after each of hits 1..N-1 (as long as
\* its lifetime has not run out) and dead from its Nth hit on.
C7_DeactivationByHits ==
  \A i \in DOMAIN projectile :
    /\ (~projectile[i].piercing /\ projectile[i].hitCount >= 1) => ~alive[i]
    /\ (projectile[i].piercing /\ projectile[i].hitCount >= projectile[i].maxHits)
         => ~alive[i]
    /\ (projectile[i].piercing /\ projectile[i].hitCount < projectile[i].maxHits
          /\ projectile[i].lifetime > 0)
         => alive[i]

\* A piercing projectile that has hit, below its maxHits and alive, next to a
\* non-piercing projectile deactivated by its hit
C7_Witness ==
  \E i, j \in DOMAIN projectile :
    /\ projectile[i].piercing
    /\ projectile[i].hitCount >= 1
    /\ projectile[i].hitCount < projectile[i].maxHits
    /\ alive[i]
    /\ ~projectile[j].piercing
    /\ projectile[j].hitCount = 1
    /\ ~alive[j]

\* C31: liveness is monotone: an entity whose alive flag is false never has
\* it true again, whatever the core does (movement, collision, combat,
\* projectile expiry, the commit of the store).
C31_DeadStaysDead ==
  [][\A i \in DOMAIN alive \cap DOMAIN alive' :
       ~alive[i] => ~alive'[i]]_vars

\* An enemy that movement marked dead has been hit by a projectile in the
\* same frame, keeps hp above 0 and is still dead
C31_Witness ==
  /\ pc = "combat"
  /\ pairIndex > 1
  /\ collisionPairs[pairIndex - 1].type = "projectile-enemy"
  /\ LET e == collisionPairs[pairIndex - 1].entityB
     IN /\ ~alive[e]
        /\ enemy[e].hp > 0

\* The pair about to be processed is a boundary or contact pair of an enemy
\* for which an earlier boundary or contact pair of this tick was processed
\* with invincibility off
SecondTowerPairPending ==
  /\ pc = "combat"
  /\ pairIndex <= Len(collisionPairs)
  /\ collisionPairs[pairIndex].type \in {"enemy-ground", "enemy-tower"}
  /\ ~invincibleTower
  /\ \E j \in 1..(pairIndex - 1) :
       /\ collisionPairs[j].type \in {"enemy-ground", "enemy-tower"}
       /\ collisionPairs[j].entityA = collisionPairs[pairIndex].entityA

\* C39: each enemy inflicts turret damage at most once over its lifetime: an
\* enemy that already damaged the turret in this tick (the scan reported both
\* a boundary pair and a contact pair for it) does not damage it again.
C39_OneTurretHitPerEnemy ==
  [][SecondTowerPairPending
       => /\ towerHp' = towerHp
          /\ emitted'.TowerDamaged = emitted.TowerDamaged]_vars

\* C40: the turret's hp never drops below 0, and TowerDestroyed is emitted
\* exactly once per run, at the damage application that first brings the hp
\* to 0: none while the hp is above 0, exactly one once it is 0.
C40_DestroyedOnce ==
  /\ towerHp >= 0
  /\ towerHp > 0 => emitted.TowerDestroyed = 0
  /\ towerHp = 0 => emitted.TowerDestroyed = 1

(***************************************************************************)
(* SpecHP: the hit points SpawnSystem gives to an enemy it creates.  The   *)
(* elapsed time and the blueprint's hp and maxHp are drawn at the start;   *)
(* spawnEnemyByKey creates the enemy, scales it and queues it.             *)
(***************************************************************************)
MaxElapsed == 660     \* elapsed times 0..MaxElapsed (the run lasts 600 s)

HpChoices == {3, 10, 50}   \* hp and maxHp of the enemy blueprint

scalingInterval == 60
gameDuration == 600
totalSteps == gameDuration \div scalingInterval

Min(a, b) == IF a <= b THEN a ELSE b

\* applyHPScaling that divides by the number of steps, not by the last step
ApplyHPScalingByTotalSteps(blueprint, currentTime) ==
  LET clampedStep == Min(currentTime \div scalingInterval, totalSteps - 1)
  IN Round(blueprint.hp * totalSteps
             + (blueprint.maxHp - blueprint.hp) * clampedStep, totalSteps)

\* SpawnSystem.applyHPScaling: the value assigned to enemy.hp and enemy.maxHp,
\* Math.round(baseHp + (maxHp - baseHp) * clampedStep / (totalSteps - 1))
ApplyHPScaling(blueprint, currentTime) ==
  LET currentStep == currentTime \div scalingInterval
      clampedStep == Min(currentStep, totalSteps - 1)
  IN Round(blueprint.hp * (totalSteps - 1)
             + (blueprint.maxHp - blueprint.hp) * clampedStep, totalSteps - 1)

HpRegistry(baseHp, maxHp) ==
  [waves |-> << [timeStart |-> 0, timeEnd |-> gameDuration, spawnInterval |-> 2,
                 enemies |-> <<"basic">>] >>,
   enemies |-> {"basic"},
   bosses |-> {},
   blueprints |-> [basic |-> [hp |-> baseHp, maxHp |-> maxHp]]]

InitHP ==
  /\ \E baseHp, maxHp \in HpChoices : registry = HpRegistry(baseHp, maxHp)
  /\ now \in 0..MaxElapsed
  /\ pc = "spawnEnemyByKey"
  /\ dt = 0
  /\ entities = {}
  /\ entitiesToAdd = <<>>
  /\ nextId = 1
  /\ kind = <<>>
  /\ alive = <<>>
  /\ spawnTimer = 0
  /\ currentWave = 0
  /\ nextMiniBossWave = 1
  /\ finalBossSpawned = FALSE
  /\ activeBoss = NoBoss
  /\ currentWarning = NoWarning
  /\ isSpawningBoss = FALSE
  /\ lastAction = "init"
  /\ spawnAdded = FALSE
  /\ enc = NoEncounter
  /\ bossSpawned = NoneSpawned
  /\ InitCombatIdle
  /\ InitCcdIdle
  /\ InitWorldIdle
  /\ InitBusIdle
  /\ InitUpgradeIdle

\* SpawnSystem.spawnEnemyByKey("basic"): creators.enemy, applyHPScaling,
\* world.add
SpawnEnemyByKey ==
  /\ pc = "spawnEnemyByKey"
  /\ EnemyBlueprintFound("basic")
  /\ pc' = "spawned"
  /\ LET hp == ApplyHPScaling(registry.blueprints["basic"], now)
     IN enemy' = Put(enemy, nextId, [hp |-> hp, maxHp |-> hp])
  /\ entitiesToAdd' = Append(entitiesToAdd, nextId)
  /\ nextId' = nextId + 1
  /\ kind' = Put(kind, nextId, "enemy")
  /\ alive' = Put(alive, nextId, TRUE)
  /\ spawnAdded' = TRUE
  /\ lastAction' = "spawn"
  /\ UNCHANGED <<registry, now, dt, entities, spawnTimer, currentWave,
                 nextMiniBossWave, finalBossSpawned, activeBoss,
                 currentWarning, isSpawningBoss, enc, bossSpawned,
                 projectile, towerHp, invincibleTower, collisionPairs,
                 pairIndex, damageEvents, emitted, ccdVars, worldVars, busVars, upgradeVars>>

NextHP == SpawnEnemyByKey

SpecHP == InitHP /\ [][NextHP]_vars

\* C20: an enemy spawned at elapsed time T has
\* hp = base + (max - base) * min(floor(T/60), 9) / 9 rounded to the nearest
\* integer; so hp = base for T < 60, hp = max for T >= 540, and hp does not
\* decrease with T when max >= base.
C20_HpLadder ==
  pc = "spawned" =>
    LET base == registry.blueprints["basic"].hp
        max == registry.blueprints["basic"].maxHp
        hp == enemy[1].hp
        step == Min(now \div 60, 9)
    IN /\ 2 * Abs(9 * hp - (9 * base + (max - base) * step)) <= 9
       /\ now < 60 => hp = base
       /\ now >= 540 => hp = max
       /\ max >= base =>
            \A t \in 0..now :
              ApplyHPScaling(registry.blueprints["basic"], t) <= hp

\* An enemy created on an intermediate step, with hit points strictly between
\* the blueprint's hp and maxHp
C20_Witness ==
  /\ pc = "spawned"
  /\ now >= 60
  /\ now < 540
  /\ enemy[1].hp > registry.blueprints["basic"].hp
  /\ enemy[1].hp < registry.blueprints["basic"].maxHp

(***************************************************************************)
(* SpecBlast: one explosive projectile hits the enemy A; the enemies B and *)
(* C stand at drawn distances from A.  The only step is                    *)
(* handleProjectileEnemyCollision for the pair (projectile, A).            *)
(***************************************************************************)
BlastEnemyA == 1
BlastEnemyB == 2
BlastEnemyC == 3
BlastProjectile == 4
BlastEnemyIds == {BlastEnemyA, BlastEnemyB, BlastEnemyC}

BlastDamageChoices == {1, 3, 10}       \* projectile.damage
BlastFractionChoices == {50, 100}      \* projectile.explosionDamage, percent
BlastRadiusChoices == {4, 50}          \* projectile.explosionRadius
BlastEnemyHp == 100                    \* enough to survive every hit here

\* The state before the pair is processed, with the explosion fraction drawn
\* from `fractions`, the hp of A from `hpA` and its alive flag from `aliveA`
InitBlastWith(fractions, hpA, aliveA) ==
  /\ registry = SchedulerRegistry
  /\ pc = "combat"
  /\ now = 0
  /\ dt = 0
  /\ entities = BlastEnemyIds \cup {BlastProjectile}
  /\ entitiesToAdd = <<>>
  /\ nextId = BlastProjectile + 1
  /\ kind = [i \in BlastEnemyIds \cup {BlastProjectile} |->
               IF i \in BlastEnemyIds THEN "enemy" ELSE "projectile"]
  /\ \E a \in aliveA :
       alive = [i \in BlastEnemyIds \cup {BlastProjectile} |->
                  IF i = BlastEnemyA THEN a ELSE TRUE]
  /\ spawnTimer = 0
  /\ currentWave = 0
  /\ nextMiniBossWave = 1
  /\ finalBossSpawned = FALSE
  /\ activeBoss = NoBoss
  /\ currentWarning = NoWarning
  /\ isSpawningBoss = FALSE
  /\ lastAction = "init"
  /\ spawnAdded = FALSE
  /\ enc = NoEncounter
  /\ bossSpawned = NoneSpawned
  /\ \E damage \in BlastDamageChoices, pct \in fractions,
        radius \in BlastRadiusChoices, hp \in hpA :
       /\ projectile = [i \in {BlastProjectile} |->
                          [damage |-> damage, piercing |-> FALSE, maxHits |-> 1,
                           hitCount |-> 0, explosion |-> TRUE,
                           explosionRadius |-> radius,
                           explosionDamagePct |-> pct, lifetime |-> 3]]
       /\ \E dB \in 0..(radius + 1), dC \in 0..(radius + 1) :
            /\ dB <= dC
            /\ enemy = [i \in BlastEnemyIds |->
                          [hp |-> IF i = BlastEnemyA THEN hp ELSE BlastEnemyHp,
                           maxHp |-> IF i = BlastEnemyA THEN hp
                                     ELSE BlastEnemyHp,
                           x |-> IF i = BlastEnemyA THEN 0
                                 ELSE IF i = BlastEnemyB THEN dB ELSE dC]]
  /\ towerHp \in TowerHpChoices
  /\ invincibleTower = FALSE
  /\ collisionPairs = << [type |-> "projectile-enemy",
                          entityA |-> BlastProjectile,
                          entityB |-> BlastEnemyA] >>
  /\ pairIndex = 1
  /\ damageEvents = <<>>
  /\ emitted = [NoneEmitted EXCEPT !.EnemyKilled = [i \in BlastEnemyIds |-> 0]]
  /\ InitCcdIdle
  /\ InitWorldIdle
  /\ InitBusIdle
  /\ InitUpgradeIdle

InitBlast == InitBlastWith(BlastFractionChoices, {BlastEnemyHp}, {TRUE})

NextBlast == HandleProjectileEnemyCollision

SpecBlast == InitBlast /\ [][NextBlast]_vars

\* The pair has been processed
BlastDone == pc = "combat" /\ pairIndex = 2 /\ Len(damageEvents) >= 1

\* The area damage logged for enemy i (the entries after the direct hit's),
\* 0 when the explosion applied none
AreaDamageTo(i) ==
  LET ks == {k \in 2..Len(damageEvents) : damageEvents[k].target = i}
  IN IF ks = {} THEN 0 ELSE damageEvents[CHOOSE k \in ks : TRUE].amount

\* C22: the area damage applied to an enemy exactly at the explosion radius
\* is 50% of the area damage applied at the center, and of two enemies at
\* distances d1 < d2 <= radius the farther one takes strictly less.
C22_HalfAtRadiusStrictlyDecreasing ==
  BlastDone =>
    LET radius == projectile[BlastProjectile].explosionRadius
        dB == enemy[BlastEnemyB].x
        dC == enemy[BlastEnemyC].x
    IN /\ dC = radius
            => 2 * AreaDamageTo(BlastEnemyC) = AreaDamageTo(BlastEnemyA)
       /\ (dB < dC /\ dC <= radius)
            => AreaDamageTo(BlastEnemyC) < AreaDamageTo(BlastEnemyB)

\* C23: a projectile with damage 10, explosion radius 50 and fraction 1.0
\* that hits A deals round(10 * (1 - 0.25 * 0.5)) to an enemy B at 25 units
\* from the impact point.
C23_HalfRadiusScenario ==
  (/\ BlastDone
   /\ projectile[BlastProjectile].damage = 10
   /\ projectile[BlastProjectile].explosionRadius = 50
   /\ projectile[BlastProjectile].explosionDamagePct = 100
   /\ enemy[BlastEnemyB].x = 25)
    => AreaDamageTo(BlastEnemyB) = Round(10 * (1000 - 125), 1000)

(***************************************************************************)
(* SpecPrimary: the explosive hit of SpecBlast seen from the primary       *)
(* target A: its hp is drawn so that the direct hit kills it or not, the   *)
(* explosion fraction so that round(damage * explosionDamage) is 0 or      *)
(* more, and its alive flag so that MovementSystem.update has marked it    *)
(* dead earlier in the tick or not.                                        *)
(***************************************************************************)
PrimaryFractionChoices == {10, 50, 100}   \* projectile.explosionDamage, percent
PrimaryHpChoices == {3, 100}              \* hp of A before the hit
PrimaryRadiusCap == 4

InitPrimary ==
  /\ InitBlastWith(PrimaryFractionChoices, PrimaryHpChoices, BOOLEAN)
  /\ enemy[BlastEnemyC].x <= PrimaryRadiusCap + 1

SpecPrimary == InitPrimary /\ [][NextBlast]_vars

\* The damage events logged for the primary target
PrimaryEvents(log) ==
  Cardinality({k \in 1..Len(log) : log[k].target = BlastEnemyA})

\* round(damage * explosionDamage) of the projectile
PrimaryAreaDamage ==
  Round(projectile[BlastProjectile].damage
          * projectile[BlastProjectile].explosionDamagePct, 100)

\* The direct hit leaves the primary target with hp above 0
SurvivesDirectHit == enemy[BlastEnemyA].hp > projectile[BlastProjectile].damage

\* C36: when an explosive projectile hits a primary target that survives the
\* direct hit, the area pass damages the same target at distance 0: it loses
\* damage + round(damage * explosionDamage) hp in total and two damage events
\* are logged for it; a primary target killed by the direct hit is skipped
\* by the area pass.
C36_PrimaryHitTwice ==
  [][LET damage == projectile[BlastProjectile].damage
         lost == enemy[BlastEnemyA].hp - enemy'[BlastEnemyA].hp
         logged == PrimaryEvents(damageEvents') - PrimaryEvents(damageEvents)
     IN IF SurvivesDirectHit
        THEN lost = damage + PrimaryAreaDamage /\ logged = 2
        ELSE lost = damage /\ logged = 1]_vars

\* C36 as the code has it: the area pass reaches the primary target when it
\* is alive after the direct hit (not killed by it, and not marked dead
\* before it); the second event is logged when the area damage is above 0.
C36_PrimaryHitTwiceWhenAlive ==
  [][LET damage == projectile[BlastProjectile].damage
         lost == enemy[BlastEnemyA].hp - enemy'[BlastEnemyA].hp
         logged == PrimaryEvents(damageEvents') - PrimaryEvents(damageEvents)
     IN IF SurvivesDirectHit /\ alive[BlastEnemyA]
        THEN /\ lost = damage + PrimaryAreaDamage
             /\ logged = (IF PrimaryAreaDamage > 0 THEN 2 ELSE 1)
        ELSE lost = damage /\ logged = 1]_vars

\* A living primary target of 100 hp after a hit of 10 with fraction 1.0:
\* 20 hp lost, two events
C36_Witness ==
  /\ BlastDone
  /\ projectile[BlastProjectile].damage = 10
  /\ projectile[BlastProjectile].explosionDamagePct = 100
  /\ enemy[BlastEnemyA].maxHp = 100
  /\ enemy[BlastEnemyA].hp = 80
  /\ alive[BlastEnemyA]
  /\ PrimaryEvents(damageEvents) = 2

(***************************************************************************)
(* SpecTowerHit: one enemy reaches the arena boundary or touches the       *)
(* turret.  The turret's hp, the invincibility flag, the enemy (created by *)
(* SpawnSystem at a drawn time, possibly wounded since) and the kind of    *)
(* the pair are drawn; the only step handles the pair.                     *)
(***************************************************************************)
MaxTowerHp == 30      \* the turret's hp is drawn from 0..MaxTowerHp

TowerHitEnemy == 1

TowerHitTimes == {0, 300, 540}     \* elapsed time at which the enemy spawned

InitTowerHit ==
  /\ registry = SchedulerRegistry
  /\ pc = "combat"
  /\ now = 0
  /\ dt = 0
  /\ entities = {TowerHitEnemy}
  /\ entitiesToAdd = <<>>
  /\ nextId = TowerHitEnemy + 1
  /\ kind = [i \in {TowerHitEnemy} |-> "enemy"]
  /\ alive = [i \in {TowerHitEnemy} |-> TRUE]
  /\ spawnTimer = 0
  /\ currentWave = 0
  /\ nextMiniBossWave = 1
  /\ finalBossSpawned = FALSE
  /\ activeBoss = NoBoss
  /\ currentWarning = NoWarning
  /\ isSpawningBoss = FALSE
  /\ lastAction = "init"
  /\ spawnAdded = FALSE
  /\ enc = NoEncounter
  /\ bossSpawned = NoneSpawned
  /\ \E baseHp \in HpChoices, maxHp \in HpChoices, t \in TowerHitTimes :
       LET scaled == ApplyHPScaling([hp |-> baseHp, maxHp |-> maxHp], t)
       IN \E hp \in {1, scaled} :
            enemy = [i \in {TowerHitEnemy} |->
                       [hp |-> hp, maxHp |-> scaled, x |-> 0]]
  /\ projectile = <<>>
  /\ towerHp \in 0..MaxTowerHp
  /\ invincibleTower \in BOOLEAN
  /\ \E type \in {"enemy-ground", "enemy-tower"} :
       collisionPairs = << [type |-> type, entityA |-> TowerHitEnemy,
                            entityB |-> TowerId] >>
  /\ pairIndex = 1
  /\ damageEvents = <<>>
  /\ emitted = [NoneEmitted EXCEPT
                  !.EnemyKilled = [i \in {TowerHitEnemy} |-> 0]]
  /\ InitCcdIdle
  /\ InitWorldIdle
  /\ InitBusIdle
  /\ InitUpgradeIdle

NextTowerHit == HandleEnemyGroundCollision \/ HandleEnemyTowerCollision

SpecTowerHit == InitTowerHit /\ [][NextTowerHit]_vars

\* The pair of the given type has been processed
TowerHitDone(type) ==
  /\ pc = "combat"
  /\ pairIndex = 2
  /\ Len(collisionPairs) = 1
  /\ collisionPairs[1].type = type

\* The turret has lost `amount` hp (clamped at 0), one damage event and one
\* TowerDamaged notification carry `amount`
TowerTook(amount) ==
  /\ towerHp' = (IF towerHp - amount > 0 THEN towerHp - amount ELSE 0)
  /\ damageEvents' = Append(damageEvents,
                            [target |-> TowerId, amount |-> amount, t |-> now])
  /\ emitted'.TowerDamaged = emitted.TowerDamaged + 1
  /\ emitted'.TowerDamagedAmount = amount

\* C24: when an enemy-boundary pair is processed with invincibility off, the
\* enemy is marked dead and the turret loses exactly 1 hp (clamped at 0), with
\* one TowerDamaged notification of damage 1, whatever the enemy's hp or max
\* hp.
C24_BoundaryHitIsOneDamage ==
  [][(PairPending("enemy-ground") /\ ~invincibleTower)
       => /\ ~alive'[collisionPairs[pairIndex].entityA]
          /\ TowerTook(1)]_vars

\* A boundary pair has been processed for an enemy with max hp above 2, and
\* the turret, hit at 0 hp, is still at 0
C24_Witness ==
  /\ TowerHitDone("enemy-ground")
  /\ ~invincibleTower
  /\ enemy[TowerHitEnemy].maxHp > 2
  /\ ~alive[TowerHitEnemy]
  /\ towerHp = 0
  /\ emitted.TowerDamagedAmount = 1

\* C25: when an enemy-turret contact pair is processed with invincibility
\* off, the enemy is marked dead and the turret takes exactly
\* ceil(enemy.maxHp / 2) damage, maxHp being the enemy's max hp at that moment.
C25_ContactDamageIsHalfMaxHp ==
  [][(PairPending("enemy-tower") /\ ~invincibleTower)
       => /\ ~alive'[collisionPairs[pairIndex].entityA]
          /\ \E amount \in 0..enemy[collisionPairs[pairIndex].entityA].maxHp :
               /\ 2 * amount >= enemy[collisionPairs[pairIndex].entityA].maxHp
               /\ 2 * (amount - 1) < enemy[collisionPairs[pairIndex].entityA].maxHp
               /\ TowerTook(amount)]_vars

\* A contact pair has been processed for a wounded enemy whose max hp is odd
\* and ladder-scaled, and the turret keeps some hp
C25_Witness ==
  /\ TowerHitDone("enemy-tower")
  /\ ~invincibleTower
  /\ enemy[TowerHitEnemy].maxHp % 2 = 1
  /\ enemy[TowerHitEnemy].maxHp > 3
  /\ enemy[TowerHitEnemy].hp < enemy[TowerHitEnemy].maxHp
  /\ ~alive[TowerHitEnemy]
  /\ towerHp > 0
  /\ 2 * emitted.TowerDamagedAmount = enemy[TowerHitEnemy].maxHp + 1

\* C26: while the invincibility flag is set, processing an enemy-boundary or
\* enemy-turret pair leaves the turret's hp unchanged, appends no damage
\* event and emits no TowerDamaged or TowerDestroyed notification, yet the
\* enemy of the pair is marked dead.
C26_InvincibleTurretUntouched ==
  [][((PairPending("enemy-ground") \/ PairPending("enemy-tower"))
        /\ invincibleTower)
       => /\ ~alive'[collisionPairs[pairIndex].entityA]
          /\ towerHp' = towerHp
          /\ damageEvents' = damageEvents
          /\ emitted' = emitted]_vars

\* A contact pair has been processed with the flag set
C26_Witness ==
  /\ TowerHitDone("enemy-tower")
  /\ invincibleTower
  /\ ~alive[TowerHitEnemy]
  /\ towerHp > 0
  /\ damageEvents = <<>>

(***************************************************************************)
(* SpecLog: a combat run long enough for the age trim of the damage-event  *)
(* log to drop entries: two enemies, one explosive projectile, the turret. *)
(***************************************************************************)
MaxLogFrames == 5     \* frames of a run that watches the damage-event log

LogProjectile == 3

\* Game.gameLoop in a run that watches the log
LogClockTick ==
  /\ pc = "frame"
  /\ now < MaxLogFrames
  /\ \E d \in DtChoices : dt' = d /\ now' = now + d
  /\ pc' = "move"
  /\ UNCHANGED <<entities, kind, alive, schedulerOnlyVars, combatVars, ccdVars, worldVars, busVars, upgradeVars>>

InitLog ==
  /\ registry = SchedulerRegistry
  /\ pc = "frame"
  /\ now = 0
  /\ dt = 0
  /\ entities = EnemyIds \cup {LogProjectile}
  /\ entitiesToAdd = <<>>
  /\ nextId = LogProjectile + 1
  /\ kind = [i \in EnemyIds \cup {LogProjectile} |->
               IF i \in EnemyIds THEN "enemy" ELSE "projectile"]
  /\ alive = [i \in EnemyIds \cup {LogProjectile} |-> TRUE]
  /\ spawnTimer = 0
  /\ currentWave = 0
  /\ nextMiniBossWave = 1
  /\ finalBossSpawned = FALSE
  /\ activeBoss = NoBoss
  /\ currentWarning = NoWarning
  /\ isSpawningBoss = FALSE
  /\ lastAction = "init"
  /\ spawnAdded = FALSE
  /\ enc = NoEncounter
  /\ bossSpawned = NoneSpawned
  /\ \E hp \in EnemyHpChoices :
       enemy = [i \in EnemyIds |-> [hp |-> hp, maxHp |-> hp, x |-> EnemyX[i]]]
  /\ \E bp \in {b \in ProjectileBlueprints : b.explosion} :
       projectile = [i \in {LogProjectile} |->
                       [damage |-> bp.damage, piercing |-> bp.piercing,
                        maxHits |-> bp.maxHits, hitCount |-> 0,
                        explosion |-> bp.explosion,
                        explosionRadius |-> bp.explosionRadius,
                        explosionDamagePct |-> bp.explosionDamagePct,
                        lifetime |-> bp.lifetime]]
  /\ towerHp \in TowerHpChoices
  /\ invincibleTower = FALSE
  /\ collisionPairs = <<>>
  /\ pairIndex = 0
  /\ damageEvents = <<>>
  /\ emitted = [NoneEmitted EXCEPT !.EnemyKilled = [i \in EnemyIds |-> 0]]
  /\ InitCcdIdle
  /\ InitWorldIdle
  /\ InitBusIdle
  /\ InitUpgradeIdle

NextLog ==
  \/ LogClockTick
  \/ CombatMove
  \/ CollisionScan
  \/ HandleProjectileEnemyCollision
  \/ HandleEnemyGroundCollision
  \/ HandleEnemyTowerCollision
  \/ CombatSync
  \/ EntitiesUpdate
  \/ CombatCommit

SpecLog == InitLog /\ [][NextLog]_vars

RECURSIVE AmountsFor(_, _)
\* The sum of the amounts of the entries of `events` whose target is `target`
AmountsFor(events, target) ==
  IF events = <<>> THEN 0
  ELSE (IF Head(events).target = target THEN Head(events).amount ELSE 0)
         + AmountsFor(Tail(events), target)

\* The entries of `events` whose target is `target`
EntriesFor(events, target) ==
  Cardinality({k \in 1..Len(events) : events[k].target = target})

\* `old` is an initial part of `new`
IsPrefix(old, new) ==
  /\ Len(old) <= Len(new)
  /\ SubSeq(new, 1, Len(old)) = old

\* `kept` is `old` without the entries of the given age or older, in order
IsAgeTrim(old, kept, maxAge) ==
  kept = SelectSeq(old, LAMBDA ev : now - ev.t < maxAge)

\* C27: every damage application made by CombatSystem appends exactly one
\* entry with its target and amount to the damage-event log (each enemy's hp
\* falls by the amounts newly logged for it, the turret's by the one amount
\* logged with each TowerDamaged), nothing is appended otherwise, and
\* existing entries are never changed, only dropped by the age trim.
C27_LogMatchesApplications ==
  [][\/ /\ IsPrefix(damageEvents, damageEvents')
        /\ LET new == SubSeq(damageEvents', Len(damageEvents) + 1,
                             Len(damageEvents'))
           IN /\ \A i \in DOMAIN enemy \cap DOMAIN enemy' :
                   enemy[i].hp - enemy'[i].hp = AmountsFor(new, i)
              /\ \A k \in 1..Len(new) :
                   /\ new[k].target \in DOMAIN enemy \cup {TowerId}
                   /\ new[k].amount > 0
              /\ EntriesFor(new, TowerId)
                   = emitted'.TowerDamaged - emitted.TowerDamaged
              /\ EntriesFor(new, TowerId) <= 1
              /\ towerHp' = (IF towerHp - AmountsFor(new, TowerId) > 0
                             THEN towerHp - AmountsFor(new, TowerId) ELSE 0)
     \/ /\ pc = "combat"
        /\ pc' = "entities"
        /\ IsAgeTrim(damageEvents, damageEvents', DamageEventMaxAge)
        /\ UNCHANGED <<enemy, towerHp>>]_vars

\* The age trim has dropped an entry for the turret and kept a newer one:
\* more TowerDamaged notifications were emitted than the log holds entries
\* for the turret
C27_Witness ==
  /\ pc = "entities"
  /\ EntriesFor(damageEvents, TowerId) >= 1
  /\ emitted.TowerDamaged > EntriesFor(damageEvents, TowerId)
  /\ \E i \in DOMAIN emitted.EnemyKilled : emitted.EnemyKilled[i] > 0

(***************************************************************************)
(* SpecWorld: the World container under the calls its clients make, in any *)
(* order: add (of a newly created entity), remove, a system marking an     *)
(* entity dead, update at the end of a tick, clear between runs.  Here the *)
(* elements of entities, entitiesToAdd and entitiesToRemove are entity     *)
(* objects and entityId is the id World.add gave them.                     *)
(***************************************************************************)
MaxWorldObjects == 3  \* entity objects created in a run of SpecWorld

WorldObjects == 1..MaxWorldObjects

\* World.getById(id): the entities of the store with that id
GetById(id) == {o \in entities : entityId[o] = id}

\* World.add that puts the entity into the store at once
WorldAddImmediate(o) ==
  /\ entityId[o] = 0
  /\ entityId' = [entityId EXCEPT ![o] = nextId]
  /\ nextId' = nextId + 1
  /\ entities' = entities \cup {o}
  /\ lastAction' = "add"
  /\ UNCHANGED <<entitiesToAdd, entitiesToRemove, alive>>

\* World.add(entity), for an entity that was just created
WorldAdd(o) ==
  /\ entityId[o] = 0
  /\ entityId' = [entityId EXCEPT ![o] = nextId]
  /\ nextId' = nextId + 1
  /\ entitiesToAdd' = Append(entitiesToAdd, o)
  /\ lastAction' = "add"
  /\ UNCHANGED <<entities, entitiesToRemove, alive>>

\* World.remove(entity), for an entity of the store or of the add queue
WorldRemove(o) ==
  /\ o \in entities \cup SeqToSet(entitiesToAdd)
  /\ Len(entitiesToRemove) < MaxWorldObjects
  /\ alive' = [alive EXCEPT ![o] = FALSE]
  /\ entitiesToRemove' = Append(entitiesToRemove, o)
  /\ lastAction' = "remove"
  /\ UNCHANGED <<entities, entitiesToAdd, nextId, entityId>>

\* A system sets entity.alive = false on an entity of the store
\* (Enemy.applyDamage, Projectile.onHit, the boundary and contact handlers)
MarkDead(o) ==
  /\ o \in entities
  /\ alive[o]
  /\ alive' = [alive EXCEPT ![o] = FALSE]
  /\ lastAction' = "kill"
  /\ UNCHANGED <<entities, entitiesToAdd, entitiesToRemove, nextId, entityId>>

\* World.update that deletes only the entities queued for removal
StoreAfterUpdateKeepingDead(store, toAdd, toRemove, al) ==
  (store \cup SeqToSet(toAdd)) \ SeqToSet(toRemove)

\* The store after World.update: the queued entities are added, the entities
\* queued for removal are deleted, then every entity that is not alive
StoreAfterUpdate(store, toAdd, toRemove, al) ==
  {o \in (store \cup SeqToSet(toAdd)) \ SeqToSet(toRemove) : al[o]}

\* World.update()
WorldUpdateCall ==
  /\ entities' = StoreAfterUpdate(entities, entitiesToAdd, entitiesToRemove,
                                  alive)
  /\ entitiesToAdd' = <<>>
  /\ entitiesToRemove' = <<>>
  /\ lastAction' = "update"
  /\ UNCHANGED <<nextId, entityId, alive>>

\* World.clear that also restarts the id counter
WorldClearRestartingIds ==
  /\ entities' = {}
  /\ entitiesToAdd' = <<>>
  /\ entitiesToRemove' = <<>>
  /\ nextId' = 1
  /\ lastAction' = "clear"
  /\ UNCHANGED <<entityId, alive>>

\* World.clear()
WorldClear ==
  /\ entities' = {}
  /\ entitiesToAdd' = <<>>
  /\ entitiesToRemove' = <<>>
  /\ lastAction' = "clear"
  /\ UNCHANGED <<nextId, entityId, alive>>

\* The World after construction; no entity has been created
InitWorld ==
  /\ registry = SchedulerRegistry
  /\ pc = "world"
  /\ now = 0
  /\ dt = 0
  /\ entities = {}
  /\ entitiesToAdd = <<>>
  /\ entitiesToRemove = <<>>
  /\ nextId = 1
  /\ entityId = [o \in WorldObjects |-> 0]
  /\ kind = <<>>
  /\ alive = [o \in WorldObjects |-> TRUE]
  /\ spawnTimer = 0
  /\ currentWave = 0
  /\ nextMiniBossWave = 1
  /\ finalBossSpawned = FALSE
  /\ activeBoss = NoBoss
  /\ currentWarning = NoWarning
  /\ isSpawningBoss = FALSE
  /\ lastAction = "init"
  /\ spawnAdded = FALSE
  /\ enc = NoEncounter
  /\ bossSpawned = NoneSpawned
  /\ InitCombatIdle
  /\ InitCcdIdle
  /\ InitBusIdle
  /\ InitUpgradeIdle

NextWorld ==
  /\ pc = "world"
  /\ \/ \E o \in WorldObjects : WorldAdd(o)
     \/ \E o \in WorldObjects : WorldRemove(o)
     \/ \E o \in WorldObjects : MarkDead(o)
     \/ WorldUpdateCall
     \/ WorldClear
  /\ UNCHANGED <<registry, pc, now, dt, kind, spawnTimer, currentWave,
                 nextMiniBossWave, finalBossSpawned, activeBoss,
                 currentWarning, isSpawningBoss, spawnAdded, enc, bossSpawned,
                 combatVars, ccdVars, busVars, upgradeVars>>

SpecWorld == InitWorld /\ [][NextWorld]_vars

\* The entities added since the last update or clear
Queued == SeqToSet(entitiesToAdd)

\* C28: additions are deferred: an entity added since the last update is not
\* visible through all(), query(), getById(), count() or has(); the store
\* changes only in update() (or clear()), never during a tick; and after
\* update() every entity that was queued and is alive is in the store.
C28_AdditionsDeferred ==
  [][/\ \A o \in Queued' :
          /\ o \notin entities'
          /\ ~WorldHas(o)'
          /\ GetById(entityId[o])' = {}
          /\ Cardinality(entities') = Cardinality(entities' \ {o})
     /\ entities' # entities => lastAction' \in {"update", "clear"}
     /\ lastAction' = "update"
          => \A o \in Queued : (alive[o] => WorldHas(o)')]_vars

\* An entity was added while another was in the store, and is now waiting
\* in the add queue
C28_Witness ==
  /\ lastAction = "add"
  /\ entities # {}
  /\ Queued # {}
  /\ \E o \in Queued : alive[o]

\* C29: World.remove(e) sets e.alive to false at once and does not take e out
\* of the store (has(e) and getById(e.id) still find an e that was there);
\* after World.update() no entity with alive = false is in the store, whether
\* it was removed or marked dead by a system.
C29_RemoveMarksUpdateDeletes ==
  [][/\ lastAction' = "remove"
          => \A e \in WorldObjects :
               e = entitiesToRemove'[Len(entitiesToRemove')]
                 => /\ ~alive'[e]
                    /\ entities' = entities
                    /\ WorldHas(e)
                         => (WorldHas(e)' /\ e \in GetById(entityId[e])')
     /\ lastAction' = "update" => \A o \in entities' : alive'[o]]_vars

\* An entity of the store has been removed and is still in the store, with
\* another that a system marked dead
C29_Witness ==
  /\ lastAction = "remove"
  /\ \E e \in entities : e \in SeqToSet(entitiesToRemove) /\ ~alive[e]
  /\ \E o \in entities : o \notin SeqToSet(entitiesToRemove) /\ ~alive[o]

BusHandlers == {1, 2, 3}
BusKey == "EnemyKilled"

\* What a handler does when called: the handler whose unsubscribe function
\* it calls (0: none), and whether it then throws
HandlerBodies == [off : {0} \cup BusHandlers, throws : BOOLEAN]

\* listeners.get(key), <<>> for undefined
Handlers(lst, key) == IF key \in DOMAIN lst THEN lst[key] ELSE <<>>

\* handlers.indexOf(handler), from 1; 0 when absent
IndexOf(hs, h) ==
  IF \E i \in 1..Len(hs) : hs[i] = h
  THEN CHOOSE i \in 1..Len(hs) :
         hs[i] = h /\ \A j \in 1..(i - 1) : hs[j] # h
  ELSE 0

\* The function returned by on(key, handler): indexOf, then splice(index, 1)
Unsubscribe(hs, h) ==
  LET i == IndexOf(hs, h)
  IN IF i > 0 THEN SubSeq(hs, 1, i - 1) \o SubSeq(hs, i + 1, Len(hs)) ELSE hs

\* emit after a handler call where the exception went up the stack
AfterHandlerUncaught(d, throws) ==
  IF throws THEN [d EXCEPT !.state = "propagated"]
  ELSE [d EXCEPT !.index = @ + 1]

\* emit after a handler call: try { handler(payload) } catch { console.error },
\* then the next position of the for-of loop
AfterHandler(d, throws) == [d EXCEPT !.index = @ + 1]

\* EventBus.on(BusKey, h), between emits, for a handler not yet subscribed
BusOn(h) ==
  /\ dispatch.state # "running"
  /\ h \notin SeqToSet(Handlers(listeners, BusKey))
  /\ listeners' = [k \in DOMAIN listeners \cup {BusKey} |->
                     IF k = BusKey THEN Append(Handlers(listeners, BusKey), h)
                     ELSE listeners[k]]
  /\ UNCHANGED <<invoked, dispatch, handlerBody>>

\* The unsubscribe function of a subscribed handler, called between emits
BusOff(h) ==
  /\ dispatch.state # "running"
  /\ h \in SeqToSet(Handlers(listeners, BusKey))
  /\ listeners' = [listeners EXCEPT ![BusKey] = Unsubscribe(@, h)]
  /\ UNCHANGED <<invoked, dispatch, handlerBody>>

\* EventBus.emit(BusKey, payload) up to the loop: handlers = listeners.get(key)
BusEmitStart ==
  /\ dispatch.state # "running"
  /\ dispatch' = [state |-> IF BusKey \in DOMAIN listeners THEN "running"
                            ELSE "done",
                  key |-> BusKey, index |-> 1,
                  atStart |-> Handlers(listeners, BusKey)]
  /\ invoked' = <<>>
  /\ UNCHANGED <<listeners, handlerBody>>

\* One round of `for (const handler of handlers)`: the array iterator reads
\* the live array at its index; the handler runs (calling an unsubscribe
\* function if its code does, then throwing if its code does)
BusEmitStep ==
  /\ dispatch.state = "running"
  /\ dispatch.index <= Len(listeners[dispatch.key])
  /\ LET h == listeners[dispatch.key][dispatch.index]
         body == handlerBody[h]
     IN /\ invoked' = Append(invoked, <<dispatch.key, h>>)
        /\ listeners' = IF body.off # 0
                        THEN [listeners EXCEPT
                                ![dispatch.key] = Unsubscribe(@, body.off)]
                        ELSE listeners
        /\ dispatch' = AfterHandler(dispatch, body.throws)
  /\ UNCHANGED handlerBody

\* The iterator is past the end of the array: emit returns
BusEmitReturn ==
  /\ dispatch.state = "running"
  /\ dispatch.index > Len(listeners[dispatch.key])
  /\ dispatch' = [dispatch EXCEPT !.state = "done"]
  /\ UNCHANGED <<listeners, invoked, handlerBody>>

InitBus ==
  /\ registry = SchedulerRegistry
  /\ pc = "bus"
  /\ now = 0
  /\ dt = 0
  /\ entities = {}
  /\ entitiesToAdd = <<>>
  /\ nextId = 1
  /\ kind = <<>>
  /\ alive = <<>>
  /\ spawnTimer = 0
  /\ currentWave = 0
  /\ nextMiniBossWave = 1
  /\ finalBossSpawned = FALSE
  /\ activeBoss = NoBoss
  /\ currentWarning = NoWarning
  /\ isSpawningBoss = FALSE
  /\ lastAction = "init"
  /\ spawnAdded = FALSE
  /\ enc = NoEncounter
  /\ bossSpawned = NoneSpawned
  /\ InitCombatIdle
  /\ InitCcdIdle
  /\ InitWorldIdle
  /\ listeners = <<>>
  /\ invoked = <<>>
  /\ dispatch = NoDispatch
  /\ handlerBody \in [BusHandlers -> HandlerBodies]
  /\ InitUpgradeIdle

NextBus ==
  /\ pc = "bus"
  /\ \/ \E h \in BusHandlers : BusOn(h)
     \/ \E h \in BusHandlers : BusOff(h)
     \/ BusEmitStart
     \/ BusEmitStep
     \/ BusEmitReturn
  /\ UNCHANGED <<schedVars, combatVars, ccdVars, worldVars, upgradeVars>>

SpecBus == InitBus /\ [][NextBus]_vars

\* The calls an emit makes when every handler of `hs` is called once, in order
CallsInOrder(key, hs) == [i \in 1..Len(hs) |-> <<key, hs[i]>>]

\* No handler subscribed at the start of the emit calls an unsubscribe function
NoUnsubscribeInDispatch ==
  \A i \in 1..Len(dispatch.atStart) : handlerBody[dispatch.atStart[i]].off = 0

\* C37: emit isolates handler failures: when a handler throws, emit does not
\* propagate the exception and every other handler subscribed to the key is
\* still called, in subscription order.
C37_HandlerFailureIsolated ==
  /\ dispatch.state # "propagated"
  /\ (dispatch.state = "done" /\ NoUnsubscribeInDispatch)
       => invoked = CallsInOrder(dispatch.key, dispatch.atStart)

\* An emit to three handlers, the first and the second of which threw, has
\* returned after calling all three
C37_Witness ==
  /\ dispatch.state = "done"
  /\ Len(dispatch.atStart) = 3
  /\ NoUnsubscribeInDispatch
  /\ handlerBody[dispatch.atStart[1]].throws
  /\ handlerBody[dispatch.atStart[2]].throws
  /\ Len(invoked) = 3

\* How often the emit called handler h
TimesCalled(h) ==
  Cardinality({n \in 1..Len(invoked) : invoked[n][2] = h})

\* C38: every handler subscribed to the key when emit starts is called
\* exactly once by that emit, also when a handler calls its own or another
\* handler's unsubscribe function during the dispatch; a handler whose
\* unsubscribe function was called before the emit is never called.
C38_EachSubscribedHandlerOnce ==
  dispatch.state = "done" =>
    \A h \in BusHandlers :
      TimesCalled(h) = (IF h \in SeqToSet(dispatch.atStart) THEN 1 ELSE 0)

(***************************************************************************)
(* SpecUpgrade: UpgradeSystem.apply, called directly or by the CardChosen  *)
(* handler the constructor subscribes, with any key in any order.          *)
(***************************************************************************)
\* registry.config.upgrades
maxSlots == 5
maxLevelPerUpgrade == 5

\* registry.upgrades: maxLevel and, per level, the ops of the effects.  The
\* effects of "xp" stop at level 4.
UpgradeKeys == {"damage", "fireRate", "hp", "regen", "xp", "cannon"}
UnknownUpgradeKey == "noSuchUpgrade"
UpgradeMaxLevel ==
  [k \in UpgradeKeys |->
     CASE k = "hp" -> 3 [] k = "regen" -> 1 [] k = "xp" -> 7 [] OTHER -> 5]
UpgradeEffects ==
  [k \in UpgradeKeys |->
     [l \in 1..(IF k = "xp" THEN 4 ELSE UpgradeMaxLevel[k]) |->
        IF k = "cannon"
        THEN (IF l = 1 THEN <<"equipWeapon">> ELSE <<"upgradeWeapon">>)
        ELSE IF k = "fireRate" THEN <<"statMult">>
        ELSE IF k = "hp" THEN <<"statAdd", "statSet">>
        ELSE <<"statAdd">>]]

\* UpgradeSystem.applyEffect: the key the effect's operation is emitted under
EffectKey(op) ==
  CASE op \in {"statAdd", "statMult", "statSet"} -> "StatModification"
    [] op = "equipWeapon" -> "EquipWeapon"
    [] op = "upgradeWeapon" -> "UpgradeWeapon"
    [] op = "switchProjectile" -> "SwitchProjectile"
    [] op = "addWeaponSlot" -> "AddWeaponSlot"

\* One handler on each key UpgradeSystem emits under
UpgradeListeners ==
  [k \in {"StatModification", "EquipWeapon", "UpgradeWeapon", "UpgradeApplied"}
     |-> <<1>>]

\* UpgradeSystem.levelOf: this.levels.get(upgKey) || 0
LevelOf(lv, key) == IF key \in DOMAIN lv THEN lv[key] ELSE 0

\* canSelect without the slot check
CanSelectAnySlot(lv, key) ==
  /\ key \in UpgradeKeys
  /\ ~(LevelOf(lv, key) >= UpgradeMaxLevel[key]
         \/ LevelOf(lv, key) >= maxLevelPerUpgrade)

\* UpgradeSystem.canSelect
CanSelect(lv, key) ==
  /\ key \in UpgradeKeys
  /\ ~(LevelOf(lv, key) >= UpgradeMaxLevel[key]
         \/ LevelOf(lv, key) >= maxLevelPerUpgrade)
  /\ LevelOf(lv, key) = 0 => Cardinality(DOMAIN lv) < maxSlots

\* The handler calls of the emits for the effects `ops`, in order
RECURSIVE EffectCalls(_, _)
EffectCalls(lst, ops) ==
  IF ops = <<>> THEN <<>>
  ELSE BusDeliver(lst, EffectKey(Head(ops))) \o EffectCalls(lst, Tail(ops))

\* UpgradeSystem.apply(key); invoked holds the handler calls of this apply
UpgradeApply(key) ==
  /\ pc = "upgrade"
  /\ lastAction' = key
  /\ IF ~CanSelect(levels, key)
     THEN /\ levels' = levels
          /\ invoked' = <<>>
     ELSE LET newLevel == LevelOf(levels, key) + 1
          IN /\ levels' = Put(levels, key, newLevel)
             /\ invoked' =
                  IF newLevel \notin DOMAIN UpgradeEffects[key]
                  THEN <<>>        \* no effects defined for the level
                  ELSE EffectCalls(listeners, UpgradeEffects[key][newLevel])
                         \o BusDeliver(listeners, "UpgradeApplied")
  /\ UNCHANGED <<registry, pc, now, dt, entities, entitiesToAdd, nextId, kind,
                 alive, spawnTimer, currentWave, nextMiniBossWave,
                 finalBossSpawned, activeBoss, currentWarning, isSpawningBoss,
                 spawnAdded, enc, bossSpawned, combatVars, ccdVars, worldVars,
                 listeners, dispatch, handlerBody>>

InitUpgrade ==
  /\ registry = SchedulerRegistry
  /\ pc = "upgrade"
  /\ now = 0
  /\ dt = 0
  /\ entities = {}
  /\ entitiesToAdd = <<>>
  /\ nextId = 1
  /\ kind = <<>>
  /\ alive = <<>>
  /\ spawnTimer = 0
  /\ currentWave = 0
  /\ nextMiniBossWave = 1
  /\ finalBossSpawned = FALSE
  /\ activeBoss = NoBoss
  /\ currentWarning = NoWarning
  /\ isSpawningBoss = FALSE
  /\ lastAction = "init"
  /\ spawnAdded = FALSE
  /\ enc = NoEncounter
  /\ bossSpawned = NoneSpawned
  /\ InitCombatIdle
  /\ InitCcdIdle
  /\ InitWorldIdle
  /\ listeners = UpgradeListeners
  /\ invoked = <<>>
  /\ dispatch = NoDispatch
  /\ handlerBody = <<>>
  /\ InitUpgradeIdle

NextUpgrade == \E key \in UpgradeKeys \cup {UnknownUpgradeKey} : UpgradeApply(key)

SpecUpgrade == InitUpgrade /\ [][NextUpgrade]_vars

\* The level of `key` in lv, and the number of keys with a level above 0
LevelIn(lv, key) == IF key \in DOMAIN lv THEN lv[key] ELSE 0
SlotsUsed(lv) == Cardinality({k \in DOMAIN lv : lv[k] > 0})

\* An apply of `key` on lv violates a limit or names an unknown upgrade
ViolatesLimit(lv, key) ==
  \/ key \notin UpgradeKeys
  \/ LevelIn(lv, key) >= UpgradeMaxLevel[key]
  \/ LevelIn(lv, key) >= 5
  \/ LevelIn(lv, key) = 0 /\ SlotsUsed(lv) >= 5

\* C35: after any sequence of apply calls at most maxSlots (5) distinct
\* upgrade keys have a level above 0 and every upgrade's level is at most
\* min(its maxLevel, maxLevelPerUpgrade (5)); an apply that violates either
\* limit or names an unknown upgrade changes no level and emits no effect.
C35_SlotAndLevelLimits ==
  /\ [](/\ SlotsUsed(levels) <= 5
        /\ \A k \in DOMAIN levels :
             /\ k \in UpgradeKeys
             /\ levels[k] <= UpgradeMaxLevel[k]
             /\ levels[k] <= 5)
  /\ [][\A key \in UpgradeKeys \cup {UnknownUpgradeKey} :
         (lastAction' = key /\ ViolatesLimit(levels, key))
           => levels' = levels /\ invoked' = <<>>]_vars

\* Five upgrades are selected, one of them at level 5, and the last apply
\* named a sixth one: it was refused
C35_Witness ==
  /\ SlotsUsed(levels) = 5
  /\ \E k \in DOMAIN levels : levels[k] = 5
  /\ lastAction \in UpgradeKeys \ DOMAIN levels
  /\ invoked = <<>>

====
